---------------------------- MODULE Spec2Model ----------------------------
(***************************************************************************)
(* A model of the simulation core of geared2: Storage, Deposit, Module     *)
(* (slot buffers, link validation, production and link transfer) and the   *)
(* World tick that drives them.                                            *)
(*                                                                         *)
(* Amounts are integers: every rate, machine count, throughput, buffer     *)
(* size and deposit amount of the game tables and of the tests is a whole  *)
(* number and the tick length is a whole number of seconds.                *)
(*                                                                         *)
(* A ResourceAmount (Record<string, number>) is a function whose DOMAIN is *)
(* the set of keys present in the object, so that "key absent" and "key    *)
(* present with value 0" are different states, as they are in the code.    *)
(***************************************************************************)
EXTENDS Integers, Sequences, FiniteSets, TLC

VARIABLES
    modules,        \* World.modules: the list of Module objects
    slotBuffers,    \* per module: Module.slotBuffers (slotId -> SlotBuffer)
    globalStorage,  \* World.globalStorage: [contents, capacity]
    deposits,       \* World.deposits: depositId -> Deposit
    tickRate,       \* World.tickRate (seconds per tick)
    machineInventory, \* World.machineInventory: machineType -> [total, allocated, available]
    pc,             \* position inside World.tick
    ticks,          \* number of completed World ticks
    ops,            \* number of UI operations / direct method calls applied so far
    hist,           \* observations of the current tick (history, not program state)
    last,           \* the last direct call of a method: its arguments and result
    simulator       \* the Simulator: running, interval, and the window's interval timers

vars ==
    <<modules, slotBuffers, globalStorage, deposits, tickRate, machineInventory, pc, ticks,
      ops, hist, last, simulator>>

---------------------------------------------------------------------------
(* Bounds of the model                                                     *)

MaxTicks == 4
MaxOps == 1
MaxSlots == 2
MaxLinks == 2
MaxCalls == 3

---------------------------------------------------------------------------
(* Generic helpers                                                         *)

Min2(a, b) == IF a <= b THEN a ELSE b

Min3(a, b, c) == Min2(a, Min2(b, c))

Max2(a, b) == IF a >= b THEN a ELSE b

\* The empty object {}
EmptyAmount == [r \in {} |-> 0]

\* obj[r] || 0
Get(obj, r) == IF r \in DOMAIN obj /\ obj[r] # 0 THEN obj[r] ELSE 0

\* obj[r] = v
Put(obj, r, v) == [k \in (DOMAIN obj) \cup {r} |-> IF k = r THEN v ELSE obj[k]]

\* delete obj[r]
Delete(obj, r) == [k \in (DOMAIN obj) \ {r} |-> obj[k]]

\* Number.POSITIVE_INFINITY, larger than any amount the model reaches
Infinity == 1000000000

RECURSIVE SumOver(_, _)
SumOver(f, S) ==
    IF S = {} THEN 0
    ELSE LET x == CHOOSE y \in S : TRUE IN f[x] + SumOver(f, S \ {x})

\* Sum of the values of a ResourceAmount-like function
SumAll(f) == SumOver(f, DOMAIN f)

---------------------------------------------------------------------------
(* Game tables (GameDefs.ts)                                               *)

GLOBAL_STORAGE == "global_storage"

Resources ==
    {"iron_ore", "coal", "iron_ingot", "copper_ore", "copper_ingot",
     "steel_ingot", "circuit"}

Rate(res, rate) == [resource |-> res, rate |-> rate]

\* Recipe tables keep the key order of the object literals (Object.entries).
Recipes ==
    [ smelt_iron |->
        [inputRates |-> <<Rate("iron_ore", 1), Rate("coal", 1)>>,
         outputRates |-> <<Rate("iron_ingot", 1)>>],
      smelt_copper |->
        [inputRates |-> <<Rate("copper_ore", 1), Rate("coal", 1)>>,
         outputRates |-> <<Rate("copper_ingot", 1)>>],
      smelt_steel |->
        [inputRates |-> <<Rate("iron_ingot", 2), Rate("coal", 1)>>,
         outputRates |-> <<Rate("steel_ingot", 1)>>],
      mine_iron |->
        [inputRates |-> <<>>, outputRates |-> <<Rate("iron_ore", 1)>>],
      mine_coal |->
        [inputRates |-> <<>>, outputRates |-> <<Rate("coal", 1)>>],
      mine_copper |->
        [inputRates |-> <<>>, outputRates |-> <<Rate("copper_ore", 1)>>],
      assemble_circuit |->
        [inputRates |-> <<Rate("copper_ingot", 2), Rate("iron_ingot", 1)>>,
         outputRates |-> <<Rate("circuit", 1)>>] ]

\* MachineDefs[type].bufferSize
MachineDefs ==
    [ miner |-> [bufferSize |-> 50],
      furnace |-> [bufferSize |-> 100],
      assembler |-> [bufferSize |-> 100] ]

\* Pipes[type].throughput
Pipes ==
    [ basic_pipe |-> [throughput |-> 5],
      improved_pipe |-> [throughput |-> 15],
      advanced_pipe |-> [throughput |-> 50],
      express_pipe |-> [throughput |-> 150] ]

\* slot.recipe === null
NullRecipe == "null"

\* slot.depositId === undefined
NoDeposit == "undefined"

---------------------------------------------------------------------------
(* Storage (Storage.ts)                                                    *)

\* new Storage(capacity)
NewStorage(capacity) == [contents |-> EmptyAmount, capacity |-> capacity]

\* Storage.get
StorageGet(st, resource) == Get(st.contents, resource)

\* this.capacity[resource] || Infinity
StorageCapacity(st, resource) ==
    IF Get(st.capacity, resource) # 0 THEN st.capacity[resource] ELSE Infinity

\* Storage.getFreeSpace
StorageGetFreeSpace(st, resource) ==
    StorageCapacity(st, resource) - Get(st.contents, resource)

\* Storage.add: [st |-> the storage after the call, ret |-> the returned amount]
StorageAdd(st, resource, amount) ==
    IF amount <= 0 THEN [st |-> st, ret |-> 0]
    ELSE LET current == Get(st.contents, resource)
             available == StorageCapacity(st, resource) - current
             toAdd == Min2(amount, available)
         IN [st |-> [st EXCEPT !.contents = Put(@, resource, current + toAdd)],
             ret |-> toAdd]

\* Storage.remove that reports the amount without taking it
StorageRemoveKeeps(st, resource, amount) ==
    [st |-> st, ret |-> Min2(Max2(amount, 0), Get(st.contents, resource))]

\* Storage.remove that leaves the key in place when it reaches 0
StorageRemoveLeavesZero(st, resource, amount) ==
    IF amount <= 0 THEN [st |-> st, ret |-> 0]
    ELSE LET current == Get(st.contents, resource)
             toRemove == Min2(amount, current)
         IN [st |-> [st EXCEPT !.contents = Put(@, resource, current - toRemove)],
             ret |-> toRemove]

\* Storage.remove
StorageRemove(st, resource, amount) ==
    IF amount <= 0 THEN [st |-> st, ret |-> 0]
    ELSE LET current == Get(st.contents, resource)
             toRemove == Min2(amount, current)
             left == current - toRemove
         IN [st |-> [st EXCEPT !.contents =
                        IF left <= 0 THEN Delete(@, resource)
                        ELSE Put(@, resource, left)],
             ret |-> toRemove]

\* Storage.setCapacity
SetCapacity(st, resource, capacity) ==
    [st EXCEPT !.capacity = Put(@, resource, capacity)]

---------------------------------------------------------------------------
(* Deposit (Deposit.ts)                                                    *)

\* new Deposit(id, resourceType, totalAmount, yieldRate), then the fields a
\* load (Deposit.deserialize) may set
NewDeposit(resourceType, totalAmount, yieldRate, discovered) ==
    [resourceType |-> resourceType,
     totalAmount |-> totalAmount,
     remainingAmount |-> totalAmount,
     yieldRate |-> yieldRate,
     discovered |-> discovered]

\* Deposit.isDepleted
IsDepleted(d) == d.remainingAmount <= 0

\* Deposit.extract that returns the amount without reducing remainingAmount
ExtractKeepsRemaining(d, requestedAmount) ==
    IF ~d.discovered \/ d.remainingAmount <= 0 THEN [dep |-> d, ret |-> 0]
    ELSE [dep |-> d, ret |-> Min2(requestedAmount, d.remainingAmount)]

\* Deposit.extract without the discovered test
ExtractIgnoresDiscovered(d, requestedAmount) ==
    IF d.remainingAmount <= 0 THEN [dep |-> d, ret |-> 0]
    ELSE LET extracted == Min2(requestedAmount, d.remainingAmount)
         IN [dep |-> [d EXCEPT !.remainingAmount = @ - extracted],
             ret |-> extracted]

\* Deposit.extract: [dep |-> the deposit after the call, ret |-> the amount]
Extract(d, requestedAmount) ==
    IF ~d.discovered \/ d.remainingAmount <= 0 THEN [dep |-> d, ret |-> 0]
    ELSE LET extracted == Min2(requestedAmount, d.remainingAmount)
         IN [dep |-> [d EXCEPT !.remainingAmount = @ - extracted],
             ret |-> extracted]

---------------------------------------------------------------------------
(* Module (Module.ts): slots, links, validation, slot buffers              *)

\* Module.addMachineSlot's MachineSlot
Slot(slotId, machineType, recipe, machineCount, depositId) ==
    [slotId |-> slotId, machineType |-> machineType, recipe |-> recipe,
     machineCount |-> machineCount, depositId |-> depositId]

\* new Link(id, fromId, toId, resource, pipeDef)
Link(id, fromId, toId, resource, pipeType) ==
    [id |-> id, fromId |-> fromId, toId |-> toId, resource |-> resource,
     pipeType |-> pipeType]

\* link.pipeDefinition.throughput
Throughput(link) == Pipes[link.pipeType].throughput

\* new Module(id, name) followed by addMachineSlot / addLink calls
NewModule(id, enabled, machineSlots, links) ==
    [id |-> id, enabled |-> enabled, machineSlots |-> machineSlots,
     links |-> links]

\* defs.recipes[slot.recipe] is defined
HasRecipe(slot) == slot.recipe # NullRecipe /\ slot.recipe \in DOMAIN Recipes

\* Module.getSlotInputs: Object.keys(recipe.inputRates)
GetSlotInputs(slot) ==
    IF ~HasRecipe(slot) THEN <<>>
    ELSE [i \in 1..Len(Recipes[slot.recipe].inputRates) |->
            Recipes[slot.recipe].inputRates[i].resource]

\* Module.getSlotOutputs: Object.keys(recipe.outputRates)
GetSlotOutputs(slot) ==
    IF ~HasRecipe(slot) THEN <<>>
    ELSE [i \in 1..Len(Recipes[slot.recipe].outputRates) |->
            Recipes[slot.recipe].outputRates[i].resource]

\* An input-link test that ignores the resource of the link
HasInputLinkAnyResource(links, slotId, resource) ==
    \E i \in 1..Len(links) : links[i].toId = slotId

\* links.some(l => l.toId === slotId && l.resource === resource)
HasInputLink(links, slotId, resource) ==
    \E i \in 1..Len(links) :
        links[i].toId = slotId /\ links[i].resource = resource

\* links.some(l => l.fromId === slotId && l.resource === resource)
HasOutputLink(links, slotId, resource) ==
    \E i \in 1..Len(links) :
        links[i].fromId = slotId /\ links[i].resource = resource

Issue(kind, subject, what) == [kind |-> kind, subject |-> subject, what |-> what]

\* The issues one slot adds: its missing input links, then its missing
\* output links, in recipe key order
RECURSIVE MissingInputs(_, _, _)
MissingInputs(links, slot, inputs) ==
    IF inputs = <<>> THEN <<>>
    ELSE (IF HasInputLink(links, slot.slotId, Head(inputs)) THEN <<>>
          ELSE <<Issue("missing_input", slot.slotId, Head(inputs))>>)
         \o MissingInputs(links, slot, Tail(inputs))

RECURSIVE MissingOutputs(_, _, _)
MissingOutputs(links, slot, outputs) ==
    IF outputs = <<>> THEN <<>>
    ELSE (IF HasOutputLink(links, slot.slotId, Head(outputs)) THEN <<>>
          ELSE <<Issue("missing_output", slot.slotId, Head(outputs))>>)
         \o MissingOutputs(links, slot, Tail(outputs))

RECURSIVE SlotIssues(_, _)
SlotIssues(links, slots) ==
    IF slots = <<>> THEN <<>>
    ELSE MissingInputs(links, Head(slots), GetSlotInputs(Head(slots)))
         \o MissingOutputs(links, Head(slots), GetSlotOutputs(Head(slots)))
         \o SlotIssues(links, Tail(slots))

\* validIds: the slot ids of the module and 'global_storage'
ValidIds(m) ==
    {m.machineSlots[i].slotId : i \in 1..Len(m.machineSlots)} \cup {GLOBAL_STORAGE}

RECURSIVE EndpointIssues(_, _)
EndpointIssues(validIds, links) ==
    IF links = <<>> THEN <<>>
    ELSE (IF Head(links).fromId \in validIds THEN <<>>
          ELSE <<Issue("invalid_source", Head(links).id, Head(links).fromId)>>)
         \o (IF Head(links).toId \in validIds THEN <<>>
             ELSE <<Issue("invalid_target", Head(links).id, Head(links).toId)>>)
         \o EndpointIssues(validIds, Tail(links))

\* Module.validateLinks(recipes), with a recipe table
ValidateLinks(m) ==
    LET issues == SlotIssues(m.links, m.machineSlots)
                  \o EndpointIssues(ValidIds(m), m.links)
    IN [valid |-> Len(issues) = 0, issues |-> issues, warnings |-> <<>>]

\* Module.validateLinks(recipes?), the recipe table given or not
ValidateLinksWith(m, recipesGiven) ==
    IF ~recipesGiven
    THEN [valid |-> TRUE, issues |-> <<>>,
          warnings |-> <<"No recipes provided for validation">>]
    ELSE ValidateLinks(m)

\* Module.isValid
IsValid(m) == ValidateLinks(m).valid

\* The guards without the validity check
ModuleRunsWhenEnabled(m) == m.enabled

\* The guards at the top of Module.tick: the module runs this tick
ModuleRuns(m) == m.enabled /\ IsValid(m)

\* A fresh SlotBuffer
NewBuffer(capacity) ==
    [input |-> EmptyAmount, output |-> EmptyAmount, capacity |-> capacity]

\* The first loop of updateSlotBuffers: create or resize the buffer of each
\* slot whose machine type has a buffer size
RECURSIVE ResizeBuffers(_, _)
ResizeBuffers(bufs, slots) ==
    IF slots = <<>> THEN bufs
    ELSE LET slot == Head(slots)
             known == slot.machineType \in DOMAIN MachineDefs
                      /\ MachineDefs[slot.machineType].bufferSize # 0
             capacity == MachineDefs[slot.machineType].bufferSize * slot.machineCount
             next ==
                IF ~known THEN bufs
                ELSE IF slot.slotId \notin DOMAIN bufs
                     THEN Put(bufs, slot.slotId, NewBuffer(capacity))
                     ELSE [bufs EXCEPT ![slot.slotId].capacity = capacity]
         IN ResizeBuffers(next, Tail(slots))

\* updateSlotBuffers without its second loop: the buffers of slots that are
\* gone stay in the map
UpdateSlotBuffersKeepingRemoved(m, bufs) == ResizeBuffers(bufs, m.machineSlots)

\* updateSlotBuffers cutting the contents of every buffer down to its new
\* capacity
UpdateSlotBuffersTruncating(m, bufs) ==
    LET activeSlots == {m.machineSlots[i].slotId : i \in 1..Len(m.machineSlots)}
        resized == ResizeBuffers(bufs, m.machineSlots)
        Cut(obj, capacity) ==
            [r \in DOMAIN obj |-> IF obj[r] > capacity THEN capacity ELSE obj[r]]
    IN [id \in (DOMAIN resized) \cap activeSlots |->
            [input |-> Cut(resized[id].input, resized[id].capacity),
             output |-> Cut(resized[id].output, resized[id].capacity),
             capacity |-> resized[id].capacity]]

\* Module.updateSlotBuffers
UpdateSlotBuffers(m, bufs) ==
    LET activeSlots == {m.machineSlots[i].slotId : i \in 1..Len(m.machineSlots)}
        resized == ResizeBuffers(bufs, m.machineSlots)
    IN [id \in (DOMAIN resized) \cap activeSlots |-> resized[id]]

---------------------------------------------------------------------------
(* Module.tick, Phase 1: production of one slot                            *)

\* Object.keys(recipe.inputRates).length === 0
IsMining(recipe) == Len(recipe.inputRates) = 0

\* The deposit check skipping a mining slot when any deposit of the map is
\* depleted, not only its own
DepositCheckAnyDepleted(slot, recipe, deps) ==
    IF IsMining(recipe) /\ slot.depositId # NoDeposit
    THEN IF slot.depositId \in DOMAIN deps
         THEN LET deposit == deps[slot.depositId]
              IN IF \E d \in DOMAIN deps : IsDepleted(deps[d])
                 THEN [skip |-> TRUE, yieldMultiplier |-> 1]
                 ELSE IF deposit.discovered
                      THEN [skip |-> FALSE, yieldMultiplier |-> deposit.yieldRate]
                      ELSE [skip |-> FALSE, yieldMultiplier |-> 1]
         ELSE [skip |-> TRUE, yieldMultiplier |-> 1]
    ELSE IF IsMining(recipe) /\ slot.depositId = NoDeposit
         THEN [skip |-> TRUE, yieldMultiplier |-> 1]
         ELSE [skip |-> FALSE, yieldMultiplier |-> 1]

\* The deposit check of a slot: whether the slot is skipped (continue) and,
\* if not, its yieldMultiplier
DepositCheck(slot, recipe, deps) ==
    IF IsMining(recipe) /\ slot.depositId # NoDeposit
    THEN IF slot.depositId \in DOMAIN deps
         THEN LET deposit == deps[slot.depositId]
              IN IF deposit.discovered /\ ~IsDepleted(deposit)
                 THEN [skip |-> FALSE, yieldMultiplier |-> deposit.yieldRate]
                 ELSE IF IsDepleted(deposit)
                      THEN [skip |-> TRUE, yieldMultiplier |-> 1]
                      ELSE [skip |-> FALSE, yieldMultiplier |-> 1]
         ELSE [skip |-> TRUE, yieldMultiplier |-> 1]
    ELSE IF IsMining(recipe) /\ slot.depositId = NoDeposit
         THEN [skip |-> TRUE, yieldMultiplier |-> 1]
         ELSE [skip |-> FALSE, yieldMultiplier |-> 1]

\* scaledInputRates[resource] * dt
Required(rate, slot, dt) == rate.rate * slot.machineCount * dt

\* An output amount not scaled by the machine count
ToProduceUnscaled(rate, slot, dt, yieldMultiplier) ==
    rate.rate * dt * yieldMultiplier

\* scaledOutputRates[resource] * dt * yieldMultiplier
ToProduce(rate, slot, dt, yieldMultiplier) ==
    rate.rate * slot.machineCount * dt * yieldMultiplier

\* The input half of the gate stopping after the first input
InputsAvailableFirstOnly(recipe, slot, buffer, dt) ==
    \A i \in 1..Min2(1, Len(recipe.inputRates)) :
        ~(Get(buffer.input, recipe.inputRates[i].resource)
            < Required(recipe.inputRates[i], slot, dt))

\* The input half of the gate: every input is available
InputsAvailable(recipe, slot, buffer, dt) ==
    \A i \in 1..Len(recipe.inputRates) :
        ~(Get(buffer.input, recipe.inputRates[i].resource)
            < Required(recipe.inputRates[i], slot, dt))

\* The output half of the gate: every output fits under the capacity
OutputsFit(recipe, slot, buffer, dt, yieldMultiplier) ==
    \A i \in 1..Len(recipe.outputRates) :
        ~(Get(buffer.output, recipe.outputRates[i].resource)
            + ToProduce(recipe.outputRates[i], slot, dt, yieldMultiplier)
            > buffer.capacity)

\* canProduce
CanProduce(recipe, slot, buffer, dt, yieldMultiplier) ==
    /\ InputsAvailable(recipe, slot, buffer, dt)
    /\ OutputsFit(recipe, slot, buffer, dt, yieldMultiplier)

\* The commit loop over the inputs
RECURSIVE ConsumeInputs(_, _, _, _)
ConsumeInputs(input, rates, slot, dt) ==
    IF rates = <<>> THEN input
    ELSE LET resource == Head(rates).resource
             left == Get(input, resource) - Required(Head(rates), slot, dt)
             next == IF left <= 0 THEN Delete(input, resource)
                     ELSE Put(input, resource, left)
         IN ConsumeInputs(next, Tail(rates), slot, dt)

\* The commit loop over the outputs; acc = [output, deps, extracted, produced]:
\* the output side, the deposits, and per resource what deposit.extract
\* returned and what was written to the output side
RECURSIVE ProduceOutputs(_, _, _, _, _, _)
ProduceOutputs(acc, rates, recipe, slot, dt, yieldMultiplier) ==
    IF rates = <<>> THEN acc
    ELSE LET resource == Head(rates).resource
             toProduce == ToProduce(Head(rates), slot, dt, yieldMultiplier)
             output == Put(acc.output, resource, Get(acc.output, resource) + toProduce)
             extracts == IsMining(recipe) /\ slot.depositId # NoDeposit
                         /\ slot.depositId \in DOMAIN acc.deps
             ex == Extract(acc.deps[slot.depositId], toProduce)
             next ==
                [output |-> output,
                 deps |-> IF extracts
                          THEN [acc.deps EXCEPT ![slot.depositId] = ex.dep]
                          ELSE acc.deps,
                 extracted |-> IF extracts
                               THEN Put(acc.extracted, resource,
                                        Get(acc.extracted, resource) + ex.ret)
                               ELSE acc.extracted,
                 produced |-> Put(acc.produced, resource,
                                  Get(acc.produced, resource) + toProduce)]
         IN ProduceOutputs(next, Tail(rates), recipe, slot, dt, yieldMultiplier)

\* One iteration of the production loop of Module.tick for `slot`:
\* [bufs, deps] after it, whether the slot committed, and what it extracted
\* and produced per resource
ProduceSlot(slot, bufs, deps, dt) ==
    LET idle == [bufs |-> bufs, deps |-> deps, committed |-> FALSE,
                 extracted |-> EmptyAmount, produced |-> EmptyAmount]
    IN IF slot.machineCount = 0 \/ ~HasRecipe(slot) THEN idle
       ELSE IF slot.slotId \notin DOMAIN bufs THEN idle
       ELSE LET recipe == Recipes[slot.recipe]
                buffer == bufs[slot.slotId]
                check == DepositCheck(slot, recipe, deps)
            IN IF check.skip THEN idle
               ELSE IF ~CanProduce(recipe, slot, buffer, dt, check.yieldMultiplier)
               THEN idle
               ELSE LET input == ConsumeInputs(buffer.input, recipe.inputRates, slot, dt)
                        out == ProduceOutputs(
                                 [output |-> buffer.output, deps |-> deps,
                                  extracted |-> EmptyAmount, produced |-> EmptyAmount],
                                 recipe.outputRates, recipe, slot, dt,
                                 check.yieldMultiplier)
                    IN [bufs |-> [bufs EXCEPT ![slot.slotId] =
                                    [input |-> input, output |-> out.output,
                                     capacity |-> buffer.capacity]],
                        deps |-> out.deps,
                        committed |-> TRUE,
                        extracted |-> out.extracted,
                        produced |-> out.produced]

\* The production loop of Module.tick over a list of slots: [bufs, deps]
\* after the last of them
RECURSIVE ProduceSlots(_, _, _, _)
ProduceSlots(slots, bufs, deps, dt) ==
    IF slots = <<>> THEN [bufs |-> bufs, deps |-> deps]
    ELSE LET res == ProduceSlot(Head(slots), bufs, deps, dt)
         IN ProduceSlots(Tail(slots), res.bufs, res.deps, dt)

---------------------------------------------------------------------------
(* Module.tick, Phase 2: transfer of one link                              *)

\* Whether the source / target endpoint of a link resolves
SourceResolves(link, bufs) ==
    link.fromId = GLOBAL_STORAGE \/ link.fromId \in DOMAIN bufs

TargetResolves(link, bufs) ==
    link.toId = GLOBAL_STORAGE \/ link.toId \in DOMAIN bufs

\* sourceAmount
SourceAmount(link, bufs, st) ==
    IF link.fromId = GLOBAL_STORAGE THEN StorageGet(st, link.resource)
    ELSE IF link.fromId \in DOMAIN bufs
         THEN Get(bufs[link.fromId].output, link.resource)
         ELSE 0

\* targetSpace of a link into a slot left at Infinity, whatever the slot's
\* buffer holds
TargetSpaceUnbounded(link, bufs, st) ==
    IF link.toId = GLOBAL_STORAGE THEN StorageGetFreeSpace(st, link.resource)
    ELSE Infinity

\* targetSpace
TargetSpace(link, bufs, st) ==
    IF link.toId = GLOBAL_STORAGE THEN StorageGetFreeSpace(st, link.resource)
    ELSE IF link.toId \in DOMAIN bufs
         THEN bufs[link.toId].capacity - Get(bufs[link.toId].input, link.resource)
         ELSE Infinity

\* toTransfer = Math.min(sourceAmount, targetSpace, maxTransfer)
ToTransfer(link, bufs, st, dt) ==
    Min3(SourceAmount(link, bufs, st), TargetSpace(link, bufs, st),
         Throughput(link) * dt)

\* Removing toTransfer from the source: [bufs, st] after it
RemoveFromSource(link, bufs, st, toTransfer) ==
    IF link.fromId = GLOBAL_STORAGE
    THEN [bufs |-> bufs, st |-> StorageRemove(st, link.resource, toTransfer).st]
    ELSE LET left == Get(bufs[link.fromId].output, link.resource) - toTransfer
         IN [bufs |-> [bufs EXCEPT ![link.fromId].output =
                          IF left <= 0 THEN Delete(@, link.resource)
                          ELSE Put(@, link.resource, left)],
             st |-> st]

\* Adding toTransfer to the output side of a target slot
AddToTargetOutputSide(link, bufs, st, toTransfer) ==
    IF link.toId = GLOBAL_STORAGE
    THEN [bufs |-> bufs, st |-> StorageAdd(st, link.resource, toTransfer).st]
    ELSE [bufs |-> [bufs EXCEPT ![link.toId].output =
                      Put(@, link.resource, Get(@, link.resource) + toTransfer)],
          st |-> st]

\* Adding to the target by overwriting the held amount
AddToTargetOverwrites(link, bufs, st, toTransfer) ==
    IF link.toId = GLOBAL_STORAGE
    THEN [bufs |-> bufs, st |-> [st EXCEPT !.contents = Put(@, link.resource, toTransfer)]]
    ELSE [bufs |-> [bufs EXCEPT ![link.toId].input = Put(@, link.resource, toTransfer)],
          st |-> st]

\* Adding toTransfer to the target: [bufs, st] after it
AddToTarget(link, bufs, st, toTransfer) ==
    IF link.toId = GLOBAL_STORAGE
    THEN [bufs |-> bufs, st |-> StorageAdd(st, link.resource, toTransfer).st]
    ELSE [bufs |-> [bufs EXCEPT ![link.toId].input =
                      Put(@, link.resource, Get(@, link.resource) + toTransfer)],
          st |-> st]

\* One iteration of the transfer loop of Module.tick for `link`:
\* [bufs, st] after it and the amount moved
TransferLink(link, bufs, st, dt) ==
    LET idle == [bufs |-> bufs, st |-> st, moved |-> 0]
    IN IF ~SourceResolves(link, bufs) \/ ~TargetResolves(link, bufs) THEN idle
       ELSE LET toTransfer == ToTransfer(link, bufs, st, dt)
            IN IF toTransfer <= 0 THEN idle
               ELSE LET a == RemoveFromSource(link, bufs, st, toTransfer)
                        b == AddToTarget(link, a.bufs, a.st, toTransfer)
                    IN [bufs |-> b.bufs, st |-> b.st, moved |-> toTransfer]

\* Endpoint resolution when Module.tick is called with or without a global
\* storage: 'global_storage' resolves to the storage given, any other id (and
\* 'global_storage' without a storage) to the slot buffer of that id
ResolvesGiven(id, bufs, given) ==
    IF id = GLOBAL_STORAGE /\ given THEN TRUE ELSE id \in DOMAIN bufs

\* The transfer of a link that takes from its source although its target
\* does not resolve (targetSpace stays Infinity)
TransferLinkLosing(link, bufs, st, dt, given) ==
    LET idle == [bufs |-> bufs, st |-> st, moved |-> 0]
    IN IF ~ResolvesGiven(link.fromId, bufs, given) THEN idle
       ELSE IF ~ResolvesGiven(link.toId, bufs, given)
       THEN LET toTransfer == Min2(SourceAmount(link, bufs, st), Throughput(link) * dt)
            IN IF toTransfer <= 0 THEN idle
               ELSE LET a == RemoveFromSource(link, bufs, st, toTransfer)
                    IN [bufs |-> a.bufs, st |-> a.st, moved |-> toTransfer]
       ELSE TransferLink(link, bufs, st, dt)

\* One iteration of the transfer loop of Module.tick(dt, globalStorage?,
\* defs, deposits): `if (!sourceBuffer || !targetBuffer) continue`
TransferLinkGiven(link, bufs, st, dt, given) ==
    IF \/ ~ResolvesGiven(link.fromId, bufs, given)
       \/ ~ResolvesGiven(link.toId, bufs, given)
    THEN [bufs |-> bufs, st |-> st, moved |-> 0]
    ELSE TransferLink(link, bufs, st, dt)

\* The transfer loop of Module.tick over `links`: [bufs, st] after the last
\* link, and after each link in `steps`
RECURSIVE TransferLinks(_, _, _, _, _)
TransferLinks(links, bufs, st, dt, given) ==
    IF links = <<>> THEN [bufs |-> bufs, st |-> st, steps |-> <<>>]
    ELSE LET res == TransferLinkGiven(Head(links), bufs, st, dt, given)
             rest == TransferLinks(Tail(links), res.bufs, res.st, dt, given)
         IN [bufs |-> rest.bufs, st |-> rest.st,
             steps |-> <<[bufs |-> res.bufs, st |-> res.st, moved |-> res.moved]>>
                          \o rest.steps]

---------------------------------------------------------------------------
(* The worlds the model starts from: the modules of the test suite and of  *)
(* the demo, over deposits of several sizes and richness                   *)

\* new World(): this.machineInventory = {}
NoInventory == [t \in {} |-> [total |-> 0, allocated |-> 0, available |-> 0]]

\* [modules, deposits, capacity, tickRate] of a freshly built or loaded World
NewWorld(mods, deps, capacity, dt) ==
    [modules |-> mods, deposits |-> deps, capacity |-> capacity, tickRate |-> dt]

NoCapacity == EmptyAmount

\* One miner slot linked to global storage ('should produce exactly 10 iron
\* ore', 'should not extract more than deposit contains')
MinerModule(count, pipeType) ==
    NewModule("test", TRUE,
        <<Slot("miners", "miner", "mine_iron", count, "iron_deposit")>>,
        <<Link("l1", "miners", GLOBAL_STORAGE, "iron_ore", pipeType)>>)

SingleWorlds ==
    {NewWorld(<<MinerModule(count, "basic_pipe")>>,
              [iron_deposit |-> NewDeposit("iron_ore", total, yield, discovered)],
              capacity, dt) :
        count \in {1, 5}, total \in {2, 10, 12, 1000}, yield \in {1, 2},
        discovered \in {TRUE}, capacity \in {NoCapacity}, dt \in {1}}
    \cup
    \* a deposit loaded as not yet discovered (Deposit.deserialize)
    {NewWorld(<<MinerModule(count, "basic_pipe")>>,
              [iron_deposit |-> NewDeposit("iron_ore", 1000, yield, FALSE)],
              NoCapacity, 1) :
        count \in {1, 5}, yield \in {1, 2}}
    \cup
    {NewWorld(<<MinerModule(1, pipeType)>>,
              [iron_deposit |-> NewDeposit("iron_ore", 1000, yield, TRUE)],
              capacity, dt) :
        pipeType \in {"basic_pipe", "improved_pipe"}, yield \in {0, 1, 30},
        capacity \in {NoCapacity, [iron_ore |-> 3], [iron_ore |-> 0]},
        dt \in {1, 2}}

\* Miners and furnaces in one module ('should produce iron ingots without
\* buffer bottlenecks', Test 1 of the console test)
ChainModule(ironCount, coalCount, furnaceCount) ==
    NewModule("iron_production", TRUE,
        <<Slot("iron_miners", "miner", "mine_iron", ironCount, "iron_deposit"),
          Slot("coal_miners", "miner", "mine_coal", coalCount, "coal_deposit"),
          Slot("furnaces", "furnace", "smelt_iron", furnaceCount, NoDeposit)>>,
        <<Link("l1", "iron_miners", "furnaces", "iron_ore", "basic_pipe"),
          Link("l2", "coal_miners", "furnaces", "coal", "basic_pipe"),
          Link("l3", "furnaces", GLOBAL_STORAGE, "iron_ingot", "basic_pipe")>>)

ChainWorlds ==
    {NewWorld(<<ChainModule(ironCount, coalCount, 3)>>,
              [iron_deposit |-> NewDeposit("iron_ore", 1000, 1, TRUE),
               coal_deposit |-> NewDeposit("coal", coalTotal, 1, TRUE)],
              NoCapacity, 1) :
        ironCount \in {3, 5}, coalCount \in {2, 3}, coalTotal \in {7, 1000}}

\* Two modules coupled through global storage ('should have zero coal
\* accumulation in global storage')
CoalModule(count) ==
    NewModule("coal_mining", TRUE,
        <<Slot("coal_miners", "miner", "mine_coal", count, "coal_deposit")>>,
        <<Link("l1", "coal_miners", GLOBAL_STORAGE, "coal", "basic_pipe")>>)

CopperModule ==
    NewModule("copper_production", TRUE,
        <<Slot("copper_miners", "miner", "mine_copper", 2, "copper_deposit"),
          Slot("copper_furnaces", "furnace", "smelt_copper", 2, NoDeposit)>>,
        <<Link("l1", "copper_miners", "copper_furnaces", "copper_ore", "basic_pipe"),
          Link("l2", GLOBAL_STORAGE, "copper_furnaces", "coal", "basic_pipe"),
          Link("l3", "copper_furnaces", GLOBAL_STORAGE, "copper_ingot", "basic_pipe")>>)

MultiWorlds ==
    {NewWorld(mods,
              [coal_deposit |-> NewDeposit("coal", 1000, 1, TRUE),
               copper_deposit |-> NewDeposit("copper_ore", 1000, 1, TRUE)],
              NoCapacity, 1) :
        mods \in {<<CoalModule(count), CopperModule>> : count \in {2, 5, 6}}
                 \cup {<<CopperModule, CoalModule(count)>> : count \in {2, 5, 6}}}

\* Modules that do not run: no links ('should detect missing links'), a link
\* to an unknown endpoint, a paused module; each beside a module that runs
UnlinkedModule ==
    NewModule("invalid", TRUE,
        <<Slot("miners", "miner", "mine_iron", 1, NoDeposit),
          Slot("furnaces", "furnace", "smelt_iron", 1, NoDeposit)>>,
        <<>>)

DanglingModule ==
    NewModule("dangling", TRUE,
        <<Slot("miners", "miner", "mine_iron", 1, "iron_deposit")>>,
        <<Link("l1", "miners", GLOBAL_STORAGE, "iron_ore", "basic_pipe"),
          Link("l2", "miners", "ghost", "iron_ore", "basic_pipe")>>)

PausedModule ==
    NewModule("paused", FALSE,
        <<Slot("miners", "miner", "mine_iron", 1, "iron_deposit")>>,
        <<Link("l1", "miners", GLOBAL_STORAGE, "iron_ore", "basic_pipe")>>)

\* Miner slots with no deposit binding, or bound to an id the world lacks
UnboundModule(depositId) ==
    NewModule("unbound", TRUE,
        <<Slot("miners", "miner", "mine_coal", 2, depositId)>>,
        <<Link("l1", "miners", GLOBAL_STORAGE, "coal", "basic_pipe")>>)

SkippedWorlds ==
    {NewWorld(mods,
              [iron_deposit |-> NewDeposit("iron_ore", 1000, 1, TRUE),
               coal_deposit |-> NewDeposit("coal", 1000, 1, TRUE)],
              NoCapacity, 1) :
        mods \in {<<UnlinkedModule, CoalModule(2)>>,
                  <<CoalModule(2), DanglingModule>>,
                  <<PausedModule, CoalModule(2)>>,
                  <<UnboundModule(NoDeposit), MinerModule(1, "basic_pipe")>>,
                  <<UnboundModule("lost_deposit"), MinerModule(1, "basic_pipe")>>}}

\* Two links draining one slot: the iron miners feed global storage and the
\* furnaces, in either list order
SplitModule(oreLinks) ==
    NewModule("split", TRUE,
        <<Slot("iron_miners", "miner", "mine_iron", 5, "iron_deposit"),
          Slot("coal_miners", "miner", "mine_coal", 2, "coal_deposit"),
          Slot("furnaces", "furnace", "smelt_iron", 2, NoDeposit)>>,
        oreLinks \o
        <<Link("l3", "coal_miners", "furnaces", "coal", "basic_pipe"),
          Link("l4", "furnaces", GLOBAL_STORAGE, "iron_ingot", "basic_pipe")>>)

OreToStorage == Link("l1", "iron_miners", GLOBAL_STORAGE, "iron_ore", "basic_pipe")

OreToFurnaces == Link("l2", "iron_miners", "furnaces", "iron_ore", "basic_pipe")

\* Two links filling global storage from two miner slots
TwinModule ==
    NewModule("twin", TRUE,
        <<Slot("miners_a", "miner", "mine_iron", 5, "iron_deposit"),
          Slot("miners_b", "miner", "mine_iron", 5, "iron_deposit")>>,
        <<Link("l1", "miners_a", GLOBAL_STORAGE, "iron_ore", "basic_pipe"),
          Link("l2", "miners_b", GLOBAL_STORAGE, "iron_ore", "basic_pipe")>>)

\* One miner on a rich deposit feeding one furnace by an express pipe: the
\* furnace's input side fills up
RichModule ==
    NewModule("rich", TRUE,
        <<Slot("iron_miners", "miner", "mine_iron", 1, "rich_deposit"),
          Slot("coal_miners", "miner", "mine_coal", 1, "coal_deposit"),
          Slot("furnaces", "furnace", "smelt_iron", 1, NoDeposit)>>,
        <<Link("l1", "iron_miners", "furnaces", "iron_ore", "express_pipe"),
          Link("l2", "coal_miners", "furnaces", "coal", "basic_pipe"),
          Link("l3", "furnaces", GLOBAL_STORAGE, "iron_ingot", "basic_pipe")>>)

ContendedWorlds ==
    {NewWorld(<<m>>,
              [iron_deposit |-> NewDeposit("iron_ore", 1000, 1, TRUE),
               coal_deposit |-> NewDeposit("coal", 1000, 1, TRUE),
               rich_deposit |-> NewDeposit("iron_ore", 1000, 30, TRUE)],
              capacity, 1) :
        m \in {SplitModule(<<OreToStorage, OreToFurnaces>>),
               SplitModule(<<OreToFurnaces, OreToStorage>>),
               TwinModule, RichModule},
        capacity \in {NoCapacity, [iron_ore |-> 3]}}

\* Two miner slots of different sizes on one deposit
UnevenModule ==
    NewModule("uneven", TRUE,
        <<Slot("miners_a", "miner", "mine_iron", 5, "iron_deposit"),
          Slot("miners_b", "miner", "mine_iron", 1, "iron_deposit")>>,
        <<Link("l1", "miners_a", GLOBAL_STORAGE, "iron_ore", "improved_pipe"),
          Link("l2", "miners_b", GLOBAL_STORAGE, "iron_ore", "improved_pipe")>>)

\* Deposits bound to more than one slot: the demo world's coal deposit is
\* mined by the iron module and by the coal module
SharedWorlds ==
    {NewWorld(<<ChainModule(3, 3, 3), CoalModule(2)>>,
              [iron_deposit |-> NewDeposit("iron_ore", 1000, 1, TRUE),
               coal_deposit |-> NewDeposit("coal", coalTotal, 1, TRUE)],
              NoCapacity, 1) :
        coalTotal \in {3, 1000}}
    \cup
    {NewWorld(<<UnevenModule>>,
              [iron_deposit |-> NewDeposit("iron_ore", total, 1, TRUE)],
              NoCapacity, 1) :
        total \in {5, 1000}}

\* Four miners on a rich deposit whose output piles up: behind a basic pipe
\* to global storage, or in the input side of four furnaces that have no coal
HoardToStorage ==
    NewModule("hoard", TRUE,
        <<Slot("miners", "miner", "mine_iron", 4, "rich_deposit")>>,
        <<Link("l1", "miners", GLOBAL_STORAGE, "iron_ore", "basic_pipe")>>)

HoardToFurnaces ==
    NewModule("hoard", TRUE,
        <<Slot("miners", "miner", "mine_iron", 4, "rich_deposit"),
          Slot("furnaces", "furnace", "smelt_iron", 4, NoDeposit)>>,
        <<Link("l1", "miners", "furnaces", "iron_ore", "express_pipe"),
          Link("l2", GLOBAL_STORAGE, "furnaces", "coal", "basic_pipe"),
          Link("l3", "furnaces", GLOBAL_STORAGE, "iron_ingot", "basic_pipe")>>)

HoardWorlds ==
    {NewWorld(<<m>>, [rich_deposit |-> NewDeposit("iron_ore", 1000, 30, TRUE)],
              NoCapacity, 1) :
        m \in {HoardToStorage, HoardToFurnaces}}

Worlds ==
    SingleWorlds \cup ChainWorlds \cup MultiWorlds \cup SkippedWorlds
        \cup ContendedWorlds \cup SharedWorlds \cup HoardWorlds

---------------------------------------------------------------------------
(* World (World.ts): the machine inventory                                 *)

\* World.addMachinesToInventory: the inventory after the call
AddMachinesToInventory(inv, machineType, count) ==
    LET entry == IF machineType \in DOMAIN inv THEN inv[machineType]
                 ELSE [total |-> 0, allocated |-> 0, available |-> 0]
        total == entry.total + count
    IN Put(inv, machineType,
           [total |-> total, allocated |-> entry.allocated,
            available |-> total - entry.allocated])

\* The slots of a list the allocation loop counts: `allocated++` for each
\* slot of the machine type (a slot is enabled when it is added)
RECURSIVE CountSlots(_, _)
CountSlots(slots, machineType) ==
    IF slots = <<>> THEN 0
    ELSE (IF Head(slots).machineType = machineType THEN 1 ELSE 0)
         + CountSlots(Tail(slots), machineType)

\* World.calculateAllocated
RECURSIVE CalculateAllocated(_, _)
CalculateAllocated(mods, machineType) ==
    IF mods = <<>> THEN 0
    ELSE CountSlots(Head(mods).machineSlots, machineType)
         + CalculateAllocated(Tail(mods), machineType)

\* World.refreshMachineInventory with available left as it was
RefreshKeepsAvailable(inv, mods) ==
    [t \in DOMAIN inv |->
        [inv[t] EXCEPT !.allocated = CalculateAllocated(mods, t)]]

\* World.refreshMachineInventory: allocated recounted, then
\* updateMachineAvailability, for every type of the inventory
RefreshMachineInventory(inv, mods) ==
    [t \in DOMAIN inv |->
        LET allocated == CalculateAllocated(mods, t)
        IN [total |-> inv[t].total, allocated |-> allocated,
            available |-> inv[t].total - allocated]]

---------------------------------------------------------------------------
(* Snapshots: serialize and deserialize                                    *)

\* Deposit.serialize
SerializeDeposit(d) ==
    [resourceType |-> d.resourceType, totalAmount |-> d.totalAmount,
     remainingAmount |-> d.remainingAmount, yieldRate |-> d.yieldRate,
     discovered |-> d.discovered]

\* Deposit.deserialize
DeserializeDeposit(data) ==
    [NewDeposit(data.resourceType, data.totalAmount, data.yieldRate, TRUE)
        EXCEPT !.remainingAmount = data.remainingAmount,
               !.discovered = data.discovered]

\* Storage.serialize
SerializeStorage(st) == [contents |-> st.contents, capacity |-> st.capacity]

\* Storage.deserialize
DeserializeStorage(data) ==
    [NewStorage(data.capacity) EXCEPT !.contents = data.contents]

\* Link.serialize: pipeType is pipeDefinition.id
SerializeLink(link) ==
    [id |-> link.id, fromId |-> link.fromId, toId |-> link.toId,
     resource |-> link.resource, pipeType |-> link.pipeType]

\* Link.deserialize
DeserializeLink(data) ==
    Link(data.id, data.fromId, data.toId, data.resource, data.pipeType)

\* The slot object Module.serialize writes
SerializeSlot(slot) ==
    [slotId |-> slot.slotId, machineType |-> slot.machineType,
     recipe |-> slot.recipe, machineCount |-> slot.machineCount]

\* Module.serialize
SerializeModule(m) ==
    [id |-> m.id,
     machineSlots |-> [i \in 1..Len(m.machineSlots) |-> SerializeSlot(m.machineSlots[i])],
     links |-> [i \in 1..Len(m.links) |-> SerializeLink(m.links[i])],
     enabled |-> m.enabled]

\* defs.pipes[linkData.pipeType] is defined
KnownPipe(linkData) == linkData.pipeType \in DOMAIN Pipes

\* data.machineSlots || [], data.links || []
ListField(data, name) == IF name \in DOMAIN data THEN data[name] ELSE <<>>

\* data.enabled !== undefined ? data.enabled : true
EnabledField(data) == IF "enabled" \in DOMAIN data THEN data.enabled ELSE TRUE

\* The slots Module.deserialize adds: addMachineSlot(slotId, machineType,
\* recipe, machineCount) per saved slot
LoadedSlots(data) ==
    LET saved == ListField(data, "machineSlots")
    IN [i \in 1..Len(saved) |->
            Slot(saved[i].slotId, saved[i].machineType, saved[i].recipe,
                 saved[i].machineCount, NoDeposit)]

\* Module.deserialize that always leaves the module enabled
DeserializeModuleEnabled(data) ==
    NewModule(data.id, TRUE, LoadedSlots(data),
        LET known == SelectSeq(ListField(data, "links"), KnownPipe)
        IN [i \in 1..Len(known) |-> DeserializeLink(known[i])])

\* Module.deserialize that keeps the links up to the first one whose pipe
\* type the table lacks
RECURSIVE LinksUntilUnknown(_)
LinksUntilUnknown(links) ==
    IF links = <<>> \/ ~KnownPipe(Head(links)) THEN <<>>
    ELSE <<DeserializeLink(Head(links))>> \o LinksUntilUnknown(Tail(links))

DeserializeModuleStopping(data) ==
    NewModule(data.id, EnabledField(data), LoadedSlots(data),
              LinksUntilUnknown(ListField(data, "links")))

\* Module.deserialize: links whose pipe type the table lacks are dropped
DeserializeModule(data) ==
    NewModule(data.id, EnabledField(data), LoadedSlots(data),
        LET known == SelectSeq(ListField(data, "links"), KnownPipe)
        IN [i \in 1..Len(known) |-> DeserializeLink(known[i])])

\* The deposits of a world snapshot
SerializeDeposits(deps) == [d \in DOMAIN deps |-> SerializeDeposit(deps[d])]

DeserializeDeposits(data) == [d \in DOMAIN data |-> DeserializeDeposit(data[d])]

\* World.serialize: the inventory is saved as its totals only
SerializeWorld(w) ==
    [modules |-> [i \in 1..Len(w.modules) |-> SerializeModule(w.modules[i])],
     globalStorage |-> SerializeStorage(w.globalStorage),
     deposits |-> SerializeDeposits(w.deposits),
     tickRate |-> w.tickRate,
     machineInventory |->
        [t \in DOMAIN w.machineInventory |-> w.machineInventory[t].total]]

\* World.deserialize: new World(data.tickRate || 1.0), the storage, one
\* addMachinesToInventory per saved total, the modules, then
\* refreshMachineInventory
DeserializeWorld(data) ==
    LET mods == [i \in 1..Len(data.modules) |-> DeserializeModule(data.modules[i])]
        added == [t \in DOMAIN data.machineInventory |->
                    AddMachinesToInventory(NoInventory, t, data.machineInventory[t])[t]]
    IN [modules |-> mods,
        globalStorage |-> DeserializeStorage(data.globalStorage),
        deposits |-> DeserializeDeposits(data.deposits),
        tickRate |-> IF data.tickRate # 0 THEN data.tickRate ELSE 1,
        machineInventory |-> RefreshMachineInventory(added, mods)]

---------------------------------------------------------------------------
(* Simulator (Simulator.ts): the interval timer that drives World.tick      *)

\* this.interval === undefined
NoTimer == 0

\* new Simulator(world): not running, no interval; `timers` is the set of
\* interval timers registered with the window and `nextTimer` the id the
\* next window.setInterval returns
NewSimulator ==
    [running |-> FALSE, interval |-> NoTimer, timers |-> {}, nextTimer |-> 1]

\* Simulator.start
SimulatorStart(sim) ==
    IF sim.running THEN sim
    ELSE [running |-> TRUE, interval |-> sim.nextTimer,
          timers |-> sim.timers \cup {sim.nextTimer},
          nextTimer |-> sim.nextTimer + 1]

\* Simulator.stop that leaves the interval timer registered
SimulatorStopKeepsTimer(sim) ==
    IF ~sim.running THEN sim
    ELSE [sim EXCEPT !.running = FALSE, !.interval = NoTimer]

\* Simulator.stop
SimulatorStop(sim) ==
    IF ~sim.running THEN sim
    ELSE IF sim.interval # NoTimer
         THEN [sim EXCEPT !.running = FALSE, !.interval = NoTimer,
                          !.timers = @ \ {sim.interval}]
         ELSE [sim EXCEPT !.running = FALSE]

---------------------------------------------------------------------------
(* World.tick as a sequence of steps                                       *)

\* The number of runTransfers passes of one World.tick
TransferPasses == 2

Idle == [phase |-> "idle", pass |-> 0, m |-> 0, i |-> 0]

\* No method has been called directly yet
NoCall == [op |-> "none"]

At(phase, pass, m, i) == [phase |-> phase, pass |-> pass, m |-> m, i |-> i]

\* A World.tick with a single transfer pass
AfterModuleSinglePass(mods, phase, pass, m) ==
    IF m < Len(mods) THEN At(phase, pass, m + 1, 0)
    ELSE IF phase = "prod" THEN At("xfer", 1, 1, 0)
    ELSE Idle

\* Where World.tick goes after module m in a phase: the next module of the
\* list, then the next phase (production, transfer pass 1, transfer pass 2)
AfterModule(mods, phase, pass, m) ==
    IF m < Len(mods) THEN At(phase, pass, m + 1, 0)
    ELSE IF phase = "prod" THEN At("xfer", 1, 1, 0)
    ELSE IF pass < TransferPasses THEN At("xfer", pass + 1, 1, 0)
    ELSE Idle

\* Where the loop of module m goes after item i of n
AfterItem(mods, phase, pass, m, i, n) ==
    IF i < n THEN At(phase, pass, m, i + 1) ELSE AfterModule(mods, phase, pass, m)

\* World.getTotalResources for one resource: global storage plus the input
\* and output sides of every slot buffer
RECURSIVE BufferTotal(_, _, _)
BufferTotal(bufs, ids, r) ==
    IF ids = {} THEN 0
    ELSE LET id == CHOOSE x \in ids : TRUE
         IN Get(bufs[id].input, r) + Get(bufs[id].output, r)
            + BufferTotal(bufs, ids \ {id}, r)

RECURSIVE ModulesTotal(_, _, _)
ModulesTotal(allBufs, n, r) ==
    IF n = 0 THEN 0
    ELSE BufferTotal(allBufs[n], DOMAIN allBufs[n], r) + ModulesTotal(allBufs, n - 1, r)

Total(allBufs, st, r) == Get(st.contents, r) + ModulesTotal(allBufs, Len(allBufs), r)

\* What is observed of a tick: the state it started from, what production
\* extracted, produced, which slots committed and which were held back, and
\* the order of its phases; of the transfer pass of a module that is under
\* way, the state it started from and what each link moved so far; what
\* each link (module, position) moved over the passes of the tick; per
\* deposit, the modules whose production changed it
NewHist(allBufs, st, deps, minedInto) ==
    [startTotal |-> [r \in Resources |-> Total(allBufs, st, r)],
     startBufs |-> allBufs,
     startStorage |-> st,
     startDeposits |-> deps,
     extracted |-> [r \in Resources |-> 0],
     produced |-> [r \in Resources |-> 0],
     committed |-> {},
     blocked |-> {},
     trace |-> <<>>,
     passModule |-> 0,
     passBufs |-> allBufs,
     passStorage |-> st,
     moved |-> <<>>,
     linkMoved |-> [l \in {} |-> 0],
     changedBy |-> [d \in DOMAIN deps |-> {}],
     minedInto |-> minedInto]

Init ==
    \E w \in Worlds :
        /\ modules = w.modules
        /\ slotBuffers = [m \in 1..Len(w.modules) |-> [id \in {} |-> NewBuffer(0)]]
        /\ globalStorage = NewStorage(w.capacity)
        /\ deposits = w.deposits
        /\ tickRate = w.tickRate
        /\ machineInventory = NoInventory
        /\ simulator = NewSimulator
        /\ pc = Idle
        /\ ticks = 0
        /\ ops = 0
        /\ hist = NewHist(slotBuffers, globalStorage, deposits,
                          [d \in DOMAIN w.deposits |-> 0])
        /\ last = NoCall

\* World.tick is called
TickStart ==
    /\ pc = Idle
    /\ ticks < MaxTicks
    /\ pc' = At("prod", 0, 1, 0)
    /\ hist' = NewHist(slotBuffers, globalStorage, deposits, hist.minedInto)
    /\ UNCHANGED <<simulator, machineInventory, modules, slotBuffers, globalStorage, deposits, tickRate, ticks, ops,
                   last>>

\* Module.tick with one slot-buffer map shared by all modules: every
\* module's buffers are rebuilt from the slots of the module that ticks
ModuleTickSharedBuffers ==
    /\ pc.phase = "prod" /\ pc.i = 0
    /\ LET m == modules[pc.m]
       IN /\ slotBuffers' =
                IF ModuleRuns(m)
                THEN [k \in DOMAIN slotBuffers |-> UpdateSlotBuffers(m, slotBuffers[k])]
                ELSE slotBuffers
          /\ pc' = IF ModuleRuns(m)
                   THEN AfterItem(modules, "prod", 0, pc.m, 0, Len(m.machineSlots))
                   ELSE AfterModule(modules, "prod", 0, pc.m)
          /\ hist' = [hist EXCEPT !.trace = Append(@, [kind |-> "prod", m |-> pc.m,
                                                        ran |-> ModuleRuns(m)])]
    /\ UNCHANGED <<simulator, machineInventory, modules, globalStorage, deposits, tickRate, ticks, ops, last>>

\* Module.tick of module pc.m up to the production loop: the guards, then
\* updateSlotBuffers
ModuleTick ==
    /\ pc.phase = "prod" /\ pc.i = 0
    /\ LET m == modules[pc.m]
       IN /\ slotBuffers' =
                IF ModuleRuns(m)
                THEN [slotBuffers EXCEPT ![pc.m] = UpdateSlotBuffers(m, @)]
                ELSE slotBuffers
          /\ pc' = IF ModuleRuns(m)
                   THEN AfterItem(modules, "prod", 0, pc.m, 0, Len(m.machineSlots))
                   ELSE AfterModule(modules, "prod", 0, pc.m)
          /\ hist' = [hist EXCEPT !.trace = Append(@, [kind |-> "prod", m |-> pc.m,
                                                        ran |-> ModuleRuns(m)])]
    /\ UNCHANGED <<simulator, machineInventory, modules, globalStorage, deposits, tickRate, ticks, ops, last>>

\* One iteration of the production loop: slot pc.i of module pc.m
ProduceStep ==
    /\ pc.phase = "prod" /\ pc.i >= 1
    /\ LET m == modules[pc.m]
           slot == m.machineSlots[pc.i]
           res == ProduceSlot(slot, slotBuffers[pc.m], deposits, tickRate)
           mines == res.committed /\ IsMining(Recipes[slot.recipe])
                    /\ slot.depositId \in DOMAIN deposits
       IN /\ slotBuffers' = [slotBuffers EXCEPT ![pc.m] = res.bufs]
          /\ deposits' = res.deps
          /\ pc' = AfterItem(modules, "prod", 0, pc.m, pc.i, Len(m.machineSlots))
          /\ hist' = [hist EXCEPT
                        !.extracted = [r \in Resources |-> @[r] + Get(res.extracted, r)],
                        !.produced = [r \in Resources |-> @[r] + Get(res.produced, r)],
                        !.committed = IF res.committed
                                      THEN @ \cup {<<pc.m, slot.slotId>>} ELSE @,
                        !.blocked = IF ~res.committed /\ slot.machineCount > 0
                                       /\ HasRecipe(slot)
                                    THEN @ \cup {<<pc.m, slot.slotId>>} ELSE @,
                        !.trace = IF res.deps # deposits
                                  THEN Append(@, [kind |-> "extract", m |-> pc.m,
                                                  ran |-> TRUE])
                                  ELSE @,
                        !.changedBy = [d \in DOMAIN @ |->
                                         IF res.deps[d] # deposits[d]
                                         THEN @[d] \cup {pc.m} ELSE @[d]],
                        !.minedInto = IF mines
                                      THEN [@ EXCEPT ![slot.depositId] =
                                              @ + SumAll(res.produced)]
                                      ELSE @]
    /\ UNCHANGED <<simulator, machineInventory, modules, globalStorage, tickRate, ticks, ops, last>>

\* runTransfers of module pc.m in pass pc.pass, up to the transfer loop
RunTransfers ==
    /\ pc.phase = "xfer" /\ pc.i = 0
    /\ LET m == modules[pc.m]
           next == IF ModuleRuns(m)
                   THEN AfterItem(modules, "xfer", pc.pass, pc.m, 0, Len(m.links))
                   ELSE AfterModule(modules, "xfer", pc.pass, pc.m)
       IN /\ pc' = next
          /\ ticks' = IF next = Idle THEN ticks + 1 ELSE ticks
          /\ hist' = [hist EXCEPT !.trace = Append(@, [kind |-> "xfer", m |-> pc.m,
                                                        ran |-> ModuleRuns(m)]),
                                  !.passModule = pc.m,
                                  !.passBufs = slotBuffers,
                                  !.passStorage = globalStorage,
                                  !.moved = <<>>]
    /\ UNCHANGED <<simulator, machineInventory, modules, slotBuffers, globalStorage, deposits, tickRate, ops, last>>

\* An iteration of the transfer loop that computes its amount on the buffers
\* and storage as they were when the pass of the module began
TransferStepOnSnapshot ==
    /\ pc.phase = "xfer" /\ pc.i >= 1
    /\ LET m == modules[pc.m]
           link == m.links[pc.i]
           bufs == slotBuffers[pc.m]
           resolves == SourceResolves(link, bufs) /\ TargetResolves(link, bufs)
           toTransfer == ToTransfer(link, hist.passBufs[pc.m], hist.passStorage, tickRate)
           a == RemoveFromSource(link, bufs, globalStorage, toTransfer)
           b == AddToTarget(link, a.bufs, a.st, toTransfer)
           res == IF resolves /\ toTransfer > 0
                  THEN [bufs |-> b.bufs, st |-> b.st, moved |-> toTransfer]
                  ELSE [bufs |-> bufs, st |-> globalStorage, moved |-> 0]
           next == AfterItem(modules, "xfer", pc.pass, pc.m, pc.i, Len(m.links))
       IN /\ slotBuffers' = [slotBuffers EXCEPT ![pc.m] = res.bufs]
          /\ globalStorage' = res.st
          /\ pc' = next
          /\ ticks' = IF next = Idle THEN ticks + 1 ELSE ticks
          /\ hist' = [hist EXCEPT !.moved = Append(@, res.moved),
                                  !.linkMoved =
                                      Put(@, <<pc.m, pc.i>>,
                                          Get(@, <<pc.m, pc.i>>) + res.moved)]
    /\ UNCHANGED <<simulator, machineInventory, modules, deposits, tickRate, ops, last>>

\* One iteration of the transfer loop: link pc.i of module pc.m
TransferStep ==
    /\ pc.phase = "xfer" /\ pc.i >= 1
    /\ LET m == modules[pc.m]
           link == m.links[pc.i]
           res == TransferLink(link, slotBuffers[pc.m], globalStorage, tickRate)
           next == AfterItem(modules, "xfer", pc.pass, pc.m, pc.i, Len(m.links))
       IN /\ slotBuffers' = [slotBuffers EXCEPT ![pc.m] = res.bufs]
          /\ globalStorage' = res.st
          /\ pc' = next
          /\ ticks' = IF next = Idle THEN ticks + 1 ELSE ticks
          /\ hist' = [hist EXCEPT !.moved = Append(@, res.moved),
                                  !.linkMoved =
                                      Put(@, <<pc.m, pc.i>>,
                                          Get(@, <<pc.m, pc.i>>) + res.moved)]
    /\ UNCHANGED <<simulator, machineInventory, modules, deposits, tickRate, ops, last>>

\* The pause / resume button of a module: on resume the machine inventory is
\* refreshed, then module.enabled = !module.enabled
ToggleEnabled ==
    /\ pc = Idle
    /\ ops < MaxOps
    /\ \E m \in 1..Len(modules) :
        /\ machineInventory' =
             IF ~modules[m].enabled
             THEN RefreshMachineInventory(machineInventory, modules)
             ELSE machineInventory
        /\ modules' = [modules EXCEPT ![m].enabled = ~@]
    /\ ops' = ops + 1
    /\ hist' = NewHist(slotBuffers, globalStorage, deposits, hist.minedInto)
    /\ UNCHANGED <<simulator, slotBuffers, globalStorage, deposits, tickRate, pc, ticks, last>>

\* The machine counts a slot is resized to
SlotCounts == {0, 1, 4}

\* Module.setSlotMachineCount(slotId, count)
SetSlotMachineCount ==
    /\ pc = Idle
    /\ ops < MaxOps
    /\ \E m \in 1..Len(modules) :
        \E i \in 1..Len(modules[m].machineSlots), count \in SlotCounts :
            /\ count # modules[m].machineSlots[i].machineCount
            /\ modules' =
                 [modules EXCEPT ![m].machineSlots[i].machineCount = Max2(0, count)]
    /\ ops' = ops + 1
    /\ hist' = NewHist(slotBuffers, globalStorage, deposits, hist.minedInto)
    /\ UNCHANGED <<simulator, machineInventory, slotBuffers, globalStorage, deposits, tickRate, pc, ticks, last>>

Next ==
    \/ TickStart
    \/ ModuleTick
    \/ ProduceStep
    \/ RunTransfers
    \/ TransferStep
    \/ ToggleEnabled
    \/ SetSlotMachineCount

Spec == Init /\ [][Next]_vars

---------------------------------------------------------------------------
(* World.tick as one call                                                  *)

\* The production phase of World.tick: Module.tick of modules k, k+1, ... in
\* list order
RECURSIVE ProduceAll(_, _, _, _, _)
ProduceAll(k, mods, allBufs, deps, dt) ==
    IF k > Len(mods) THEN [bufs |-> allBufs, deps |-> deps]
    ELSE LET m == mods[k]
             res == ProduceSlots(m.machineSlots, UpdateSlotBuffers(m, allBufs[k]),
                                 deps, dt)
         IN IF ModuleRuns(m)
            THEN ProduceAll(k + 1, mods, [allBufs EXCEPT ![k] = res.bufs], res.deps, dt)
            ELSE ProduceAll(k + 1, mods, allBufs, deps, dt)

\* One transfer pass of World.tick over modules k, k+1, ... in list order
RECURSIVE TransferAll(_, _, _, _, _)
TransferAll(k, mods, allBufs, st, dt) ==
    IF k > Len(mods) THEN [bufs |-> allBufs, st |-> st]
    ELSE LET m == mods[k]
             res == TransferLinks(m.links, allBufs[k], st, dt, TRUE)
         IN IF ModuleRuns(m)
            THEN TransferAll(k + 1, mods, [allBufs EXCEPT ![k] = res.bufs], res.st, dt)
            ELSE TransferAll(k + 1, mods, allBufs, st, dt)

\* `passes` transfer passes, one after the other
RECURSIVE TransferRounds(_, _, _, _, _)
TransferRounds(passes, mods, allBufs, st, dt) ==
    IF passes = 0 THEN [bufs |-> allBufs, st |-> st]
    ELSE LET res == TransferAll(1, mods, allBufs, st, dt)
         IN TransferRounds(passes - 1, mods, res.bufs, res.st, dt)

\* World.tick: [bufs, st, deps] after the production phase and the transfer
\* passes
WorldTick(mods, allBufs, st, deps, dt) ==
    LET prod == ProduceAll(1, mods, allBufs, deps, dt)
        xfer == TransferRounds(TransferPasses, mods, prod.bufs, st, dt)
    IN [bufs |-> xfer.bufs, st |-> xfer.st, deps |-> prod.deps]

---------------------------------------------------------------------------
(* Building a module: addMachineSlot and addLink on a new Module           *)

\* The slots a module is built from: the slots of the link validation test,
\* a slot without a recipe and a slot whose recipe the table lacks
SlotChoices ==
    {Slot("miners", "miner", "mine_iron", 1, NoDeposit),
     Slot("furnaces", "furnace", "smelt_iron", 1, NoDeposit),
     Slot("spare", "furnace", NullRecipe, 1, NoDeposit),
     Slot("mystery", "assembler", "unknown_recipe", 1, NoDeposit)}

\* The links a module is built from
LinkChoices ==
    {Link("ore", "miners", "furnaces", "iron_ore", "basic_pipe"),
     Link("ore_out", "miners", GLOBAL_STORAGE, "iron_ore", "basic_pipe"),
     Link("coal_in", GLOBAL_STORAGE, "furnaces", "coal", "basic_pipe"),
     Link("ingot_out", "furnaces", GLOBAL_STORAGE, "iron_ingot", "basic_pipe"),
     Link("ore_back", "furnaces", "miners", "iron_ore", "basic_pipe"),
     Link("stray", "miners", "ghost", "iron_ore", "basic_pipe")}

InitV ==
    /\ modules = <<NewModule("invalid", TRUE, <<>>, <<>>)>>
    /\ slotBuffers = <<[id \in {} |-> NewBuffer(0)]>>
    /\ globalStorage = NewStorage(NoCapacity)
    /\ deposits = [d \in {} |-> NewDeposit("iron_ore", 0, 1, TRUE)]
    /\ tickRate = 1
    /\ machineInventory = NoInventory
    /\ simulator = NewSimulator
    /\ pc = Idle
    /\ ticks = 0
    /\ ops = 0
    /\ hist = NewHist(slotBuffers, globalStorage, deposits, [d \in {} |-> 0])
    /\ last = NoCall

\* Module.addMachineSlot
AddMachineSlot ==
    /\ Len(modules[1].machineSlots) < MaxSlots
    /\ \E slot \in SlotChoices :
        modules' = [modules EXCEPT ![1].machineSlots = Append(@, slot)]
    /\ UNCHANGED <<simulator, machineInventory, slotBuffers, globalStorage, deposits, tickRate, pc, ticks, ops,
                   hist, last>>

\* Module.addLink
AddLink ==
    /\ Len(modules[1].links) < MaxLinks
    /\ \E link \in LinkChoices :
        modules' = [modules EXCEPT ![1].links = Append(@, link)]
    /\ UNCHANGED <<simulator, machineInventory, slotBuffers, globalStorage, deposits, tickRate, pc, ticks, ops,
                   hist, last>>

\* A direct call of module.validateLinks, with or without the recipe table
ValidateLinksCall ==
    /\ \E recipesGiven \in BOOLEAN :
        last' = [op |-> "validateLinks", module |-> modules[1],
                 recipesGiven |-> recipesGiven,
                 ret |-> ValidateLinksWith(modules[1], recipesGiven)]
    /\ UNCHANGED <<simulator, machineInventory, modules, slotBuffers, globalStorage, deposits, tickRate, pc, ticks, ops,
                   hist>>

NextV == AddMachineSlot \/ AddLink \/ ValidateLinksCall

SpecV == InitV /\ [][NextV]_vars

---------------------------------------------------------------------------
(* Direct calls of the Storage and Deposit methods                         *)

\* The arguments of the calls
CallResources == {"iron_ore", "coal"}

CallAmounts == {-1, 0, 2, 5}

CapacityValues == {0, 1, 3}

InitApi ==
    /\ modules = <<>>
    /\ slotBuffers = <<>>
    /\ globalStorage \in {NewStorage(NoCapacity), NewStorage([iron_ore |-> 3])}
    /\ deposits \in {[ore |-> NewDeposit("iron_ore", total, 1, discovered)] :
                        total \in {0, 3, 5}, discovered \in BOOLEAN}
    /\ tickRate = 1
    /\ machineInventory = NoInventory
    /\ simulator = NewSimulator
    /\ pc = Idle
    /\ ticks = 0
    /\ ops = 0
    /\ hist = NewHist(slotBuffers, globalStorage, deposits, [d \in DOMAIN deposits |-> 0])
    /\ last = NoCall

\* storage.add(resource, amount)
StorageAddCall ==
    /\ ops < MaxCalls
    /\ \E resource \in CallResources, amount \in CallAmounts :
        LET res == StorageAdd(globalStorage, resource, amount)
        IN /\ globalStorage' = res.st
           /\ last' = [op |-> "add", resource |-> resource, amount |-> amount,
                       ret |-> res.ret, before |-> globalStorage]
    /\ ops' = ops + 1
    /\ UNCHANGED <<simulator, machineInventory, modules, slotBuffers, deposits, tickRate, pc, ticks, hist>>

\* storage.remove(resource, amount)
StorageRemoveCall ==
    /\ ops < MaxCalls
    /\ \E resource \in CallResources, amount \in CallAmounts :
        LET res == StorageRemove(globalStorage, resource, amount)
        IN /\ globalStorage' = res.st
           /\ last' = [op |-> "remove", resource |-> resource, amount |-> amount,
                       ret |-> res.ret, before |-> globalStorage]
    /\ ops' = ops + 1
    /\ UNCHANGED <<simulator, machineInventory, modules, slotBuffers, deposits, tickRate, pc, ticks, hist>>

\* storage.setCapacity(resource, capacity)
SetCapacityCall ==
    /\ ops < MaxCalls
    /\ \E resource \in CallResources, capacity \in CapacityValues :
        /\ globalStorage' = SetCapacity(globalStorage, resource, capacity)
        /\ last' = [op |-> "setCapacity", resource |-> resource, amount |-> capacity,
                    ret |-> 0, before |-> globalStorage]
    /\ ops' = ops + 1
    /\ UNCHANGED <<simulator, machineInventory, modules, slotBuffers, deposits, tickRate, pc, ticks, hist>>

\* deposit.extract(requestedAmount)
ExtractCall ==
    /\ ops < MaxCalls
    /\ \E d \in DOMAIN deposits, requested \in CallAmounts :
        LET res == Extract(deposits[d], requested)
        IN /\ deposits' = [deposits EXCEPT ![d] = res.dep]
           /\ last' = [op |-> "extract", deposit |-> d, amount |-> requested,
                       ret |-> res.ret, before |-> deposits[d]]
    /\ ops' = ops + 1
    /\ UNCHANGED <<simulator, machineInventory, modules, slotBuffers, globalStorage, tickRate, pc, ticks, hist>>

NextApi == StorageAddCall \/ StorageRemoveCall \/ SetCapacityCall \/ ExtractCall

SpecApi == InitApi /\ [][NextApi]_vars

---------------------------------------------------------------------------
(* Managing the machine inventory of a world                               *)

\* The arguments of addMachinesToInventory
InventoryTypes == {"miner", "furnace"}

InventoryCounts == {1, 10}

\* The world as one value
TheWorld ==
    [modules |-> modules, globalStorage |-> globalStorage, deposits |-> deposits,
     tickRate |-> tickRate, machineInventory |-> machineInventory]

\* The inventory of the demo world: 10 miners and 5 furnaces, refreshed once
\* the modules are added
DemoInventory(mods) ==
    RefreshMachineInventory(
        AddMachinesToInventory(AddMachinesToInventory(NoInventory, "miner", 10),
                               "furnace", 5),
        mods)

\* A world whose modules have been added, with an empty inventory or the
\* demo world's
InitInv ==
    \E w \in MultiWorlds \cup ContendedWorlds :
        /\ modules = w.modules
        /\ slotBuffers = [m \in 1..Len(w.modules) |-> [id \in {} |-> NewBuffer(0)]]
        /\ globalStorage = NewStorage(w.capacity)
        /\ deposits = w.deposits
        /\ tickRate = w.tickRate
        /\ machineInventory \in {NoInventory, DemoInventory(w.modules)}
        /\ simulator = NewSimulator
        /\ pc = Idle
        /\ ticks = 0
        /\ ops = 0
        /\ hist = NewHist(slotBuffers, globalStorage, deposits,
                          [d \in DOMAIN w.deposits |-> 0])
        /\ last = NoCall

\* world.addMachinesToInventory(machineType, count)
AddMachinesCall ==
    /\ ops < MaxCalls
    /\ \E machineType \in InventoryTypes, count \in InventoryCounts :
        /\ machineInventory' = AddMachinesToInventory(machineInventory, machineType, count)
        /\ last' = [op |-> "addMachines", machineType |-> machineType,
                    count |-> count, before |-> TheWorld]
    /\ ops' = ops + 1
    /\ UNCHANGED <<simulator, modules, slotBuffers, globalStorage, deposits, tickRate, pc, ticks, hist>>

\* world.refreshMachineInventory()
RefreshCall ==
    /\ ops < MaxCalls
    /\ machineInventory' = RefreshMachineInventory(machineInventory, modules)
    /\ last' = [op |-> "refresh", before |-> TheWorld]
    /\ ops' = ops + 1
    /\ UNCHANGED <<simulator, modules, slotBuffers, globalStorage, deposits, tickRate, pc, ticks, hist>>

NextInv == AddMachinesCall \/ RefreshCall \/ SetSlotMachineCount

SpecInv == InitInv /\ [][NextInv]_vars

---------------------------------------------------------------------------
(* The slot slider of the user interface (SlotDisplay.tsx)                 *)

\* handleSliderChange and handleSliderCommit on slot i of module m: the
\* slider runs from 0 to the inventory total of the slot's machine type, the
\* value is clamped to available + the slot's count when it changes and
\* again when it is committed, and a commit happens only while the module is
\* paused and the value differs from the slot's count
SliderCommit ==
    /\ pc = Idle
    /\ ops < MaxCalls
    /\ \E m \in 1..Len(modules) :
        \E i \in 1..Len(modules[m].machineSlots) :
            LET slot == modules[m].machineSlots[i]
                known == slot.machineType \in DOMAIN machineInventory
                maxAvailable ==
                    IF known
                    THEN machineInventory[slot.machineType].available + slot.machineCount
                    ELSE slot.machineCount
                sliderMax == IF known THEN machineInventory[slot.machineType].total ELSE 0
            IN \E newValue \in 0..sliderMax :
                LET sliderValue == Min2(newValue, maxAvailable)
                    finalValue == Min2(sliderValue, maxAvailable)
                    mods == [modules EXCEPT ![m].machineSlots[i].machineCount =
                                Max2(0, finalValue)]
                IN /\ ~modules[m].enabled
                   /\ sliderValue # slot.machineCount
                   /\ modules' = mods
                   /\ machineInventory' = RefreshMachineInventory(machineInventory, mods)
                   /\ last' = [op |-> "sliderCommit", m |-> m, i |-> i,
                               newValue |-> newValue, before |-> TheWorld]
    /\ ops' = ops + 1
    /\ hist' = NewHist(slotBuffers, globalStorage, deposits, hist.minedInto)
    /\ UNCHANGED <<simulator, slotBuffers, globalStorage, deposits, tickRate, pc, ticks>>

NextUI == ToggleEnabled \/ SliderCommit

SpecUI == InitInv /\ [][NextUI]_vars

---------------------------------------------------------------------------
(* Saving and loading a world between ticks                                *)

SavedWorlds ==
    {NewWorld(<<CoalModule(5), CopperModule>>,
              [coal_deposit |-> NewDeposit("coal", 1000, 1, TRUE),
               copper_deposit |-> NewDeposit("copper_ore", 1000, 1, TRUE)],
              NoCapacity, 1),
     NewWorld(<<PausedModule, CoalModule(2)>>,
              [iron_deposit |-> NewDeposit("iron_ore", 1000, 1, TRUE),
               coal_deposit |-> NewDeposit("coal", 1000, 1, FALSE)],
              NoCapacity, 1),
     NewWorld(<<TwinModule>>,
              [iron_deposit |-> NewDeposit("iron_ore", 12, 1, TRUE)],
              [iron_ore |-> 3], 2),
     NewWorld(<<MinerModule(5, "improved_pipe")>>,
              [iron_deposit |-> NewDeposit("iron_ore", 10, 2, TRUE)],
              NoCapacity, 1)}

InitSave ==
    \E w \in SavedWorlds :
        /\ modules = w.modules
        /\ slotBuffers = [m \in 1..Len(w.modules) |-> [id \in {} |-> NewBuffer(0)]]
        /\ globalStorage = NewStorage(w.capacity)
        /\ deposits = w.deposits
        /\ tickRate = w.tickRate
        /\ machineInventory \in {NoInventory, DemoInventory(w.modules)}
        /\ simulator = NewSimulator
        /\ pc = Idle
        /\ ticks = 0
        /\ ops = 0
        /\ hist = NewHist(slotBuffers, globalStorage, deposits,
                          [d \in DOMAIN w.deposits |-> 0])
        /\ last = NoCall

\* World.deserialize(world.serialize()) replaces the world; the loaded
\* modules start with no slot buffers
SaveLoad ==
    /\ pc = Idle
    /\ ops < MaxCalls
    /\ LET data == SerializeWorld(TheWorld)
           w == DeserializeWorld(data)
       IN /\ modules' = w.modules
          /\ slotBuffers' = [m \in 1..Len(w.modules) |-> [id \in {} |-> NewBuffer(0)]]
          /\ globalStorage' = w.globalStorage
          /\ deposits' = w.deposits
          /\ tickRate' = w.tickRate
          /\ machineInventory' = w.machineInventory
          /\ hist' = NewHist(slotBuffers', w.globalStorage, w.deposits, hist.minedInto)
          /\ last' = [op |-> "saveLoad", before |-> TheWorld, data |-> data,
                      after |-> w]
    /\ ops' = ops + 1
    /\ UNCHANGED <<simulator, pc, ticks>>

NextSave ==
    \/ TickStart
    \/ ModuleTick
    \/ ProduceStep
    \/ RunTransfers
    \/ TransferStep
    \/ SaveLoad

SpecSave == InitSave /\ [][NextSave]_vars

---------------------------------------------------------------------------
(* Editing the slots of a module between ticks                             *)

\* The ids, machine types and counts of the slots added between ticks;
\* "smelter" has no entry in the machine table
SpareIds == {"spare_a", "spare_b"}

SpareTypes == {"furnace", "smelter"}

SpareCounts == {2}

SlotIdsOf(m) == {m.machineSlots[i].slotId : i \in 1..Len(m.machineSlots)}

\* The sequence seq without its i-th element
RemoveAt(seq, i) == SubSeq(seq, 1, i - 1) \o SubSeq(seq, i + 1, Len(seq))

InitEdit ==
    \E w \in HoardWorlds :
        /\ modules = w.modules
        /\ slotBuffers = [m \in 1..Len(w.modules) |-> [id \in {} |-> NewBuffer(0)]]
        /\ globalStorage = NewStorage(w.capacity)
        /\ deposits = w.deposits
        /\ tickRate = w.tickRate
        /\ machineInventory = NoInventory
        /\ simulator = NewSimulator
        /\ pc = Idle
        /\ ticks = 0
        /\ ops = 0
        /\ hist = NewHist(slotBuffers, globalStorage, deposits,
                          [d \in DOMAIN w.deposits |-> 0])
        /\ last = NoCall

\* module.addMachineSlot(slotId, machineType, null, machineCount) with a
\* slot id the module does not use yet
AddSpareSlot ==
    /\ pc = Idle
    /\ ops < MaxCalls
    /\ \E m \in 1..Len(modules) :
        \E id \in SpareIds \ SlotIdsOf(modules[m]), type \in SpareTypes,
           count \in SpareCounts :
            modules' = [modules EXCEPT ![m].machineSlots =
                            Append(@, Slot(id, type, NullRecipe, count, NoDeposit))]
    /\ ops' = ops + 1
    /\ hist' = NewHist(slotBuffers, globalStorage, deposits, hist.minedInto)
    /\ UNCHANGED <<simulator, machineInventory, slotBuffers, globalStorage, deposits, tickRate, pc,
                   ticks, last>>

\* A slot disappears from module.machineSlots
RemoveMachineSlot ==
    /\ pc = Idle
    /\ ops < MaxCalls
    /\ \E m \in 1..Len(modules) :
        \E i \in 1..Len(modules[m].machineSlots) :
            modules' = [modules EXCEPT ![m].machineSlots = RemoveAt(@, i)]
    /\ ops' = ops + 1
    /\ hist' = NewHist(slotBuffers, globalStorage, deposits, hist.minedInto)
    /\ UNCHANGED <<simulator, machineInventory, slotBuffers, globalStorage, deposits, tickRate, pc,
                   ticks, last>>

\* A link disappears from module.links
RemoveLink ==
    /\ pc = Idle
    /\ ops < MaxCalls
    /\ \E m \in 1..Len(modules) :
        \E i \in 1..Len(modules[m].links) :
            modules' = [modules EXCEPT ![m].links = RemoveAt(@, i)]
    /\ ops' = ops + 1
    /\ hist' = NewHist(slotBuffers, globalStorage, deposits, hist.minedInto)
    /\ UNCHANGED <<simulator, machineInventory, slotBuffers, globalStorage, deposits, tickRate, pc,
                   ticks, last>>

NextEdit ==
    \/ TickStart
    \/ ModuleTick
    \/ ProduceStep
    \/ RunTransfers
    \/ TransferStep
    \/ AddSpareSlot
    \/ RemoveMachineSlot
    \/ RemoveLink

SpecEdit == InitEdit /\ [][NextEdit]_vars

---------------------------------------------------------------------------
(* Loading one saved module                                                *)

MaxSavedLinks == 3

\* The slots and links of saved modules; "gold_pipe" is a pipe type the pipe
\* table does not have
SavedSlots ==
    {[slotId |-> "miners", machineType |-> "miner", recipe |-> "mine_iron",
      machineCount |-> 5],
     [slotId |-> "furnaces", machineType |-> "furnace", recipe |-> "smelt_iron",
      machineCount |-> 2]}

SavedPipeTypes == {"basic_pipe", "express_pipe", "gold_pipe"}

SavedLinks ==
    {[id |-> "ore", fromId |-> "miners", toId |-> "furnaces",
      resource |-> "iron_ore", pipeType |-> p] : p \in SavedPipeTypes}

\* The sequences over S of length at most n
SeqsUpTo(S, n) == UNION {[1..k -> S] : k \in 0..n}

\* Saved modules: with or without the machineSlots, links and enabled fields
SavedModules ==
    LET withSlots ==
            {[id |-> "saved"]} \cup
            {[id |-> "saved", machineSlots |-> ss] : ss \in SeqsUpTo(SavedSlots, MaxSlots)}
        withLinks ==
            withSlots \cup
            {[f \in DOMAIN d \cup {"links"} |->
                IF f = "links" THEN ls ELSE d[f]] :
                    d \in withSlots, ls \in SeqsUpTo(SavedLinks, MaxSavedLinks)}
    IN withLinks \cup
       {[f \in DOMAIN d \cup {"enabled"} |->
            IF f = "enabled" THEN e ELSE d[f]] : d \in withLinks, e \in BOOLEAN}

\* Module.deserialize(data, defs) of a saved module; the loaded module
\* replaces the world's
DeserializeModuleCall ==
    /\ \E data \in SavedModules :
        /\ modules' = <<DeserializeModule(data)>>
        /\ last' = [op |-> "deserializeModule", data |-> data,
                    ret |-> DeserializeModule(data)]
    /\ UNCHANGED <<simulator, machineInventory, slotBuffers, globalStorage, deposits, tickRate, pc,
                   ticks, ops, hist>>

NextLoad == DeserializeModuleCall

SpecLoad == InitV /\ [][NextLoad]_vars

---------------------------------------------------------------------------
(* Direct calls of module.tick, with or without a global storage           *)

\* Miners feeding a slot whose machine type has no definition (so no
\* buffer), and global storage; the first link leaves the unknown slot
DeadEndModule ==
    NewModule("dead_end", TRUE,
        <<Slot("miners", "miner", "mine_iron", 2, "iron_deposit"),
          Slot("crusher", "smelter", NullRecipe, 1, NoDeposit)>>,
        <<Link("l0", "crusher", GLOBAL_STORAGE, "iron_ore", "basic_pipe"),
          Link("l1", "miners", "crusher", "iron_ore", "basic_pipe"),
          Link("l2", "miners", GLOBAL_STORAGE, "iron_ore", "basic_pipe")>>)

TickCallWorlds ==
    {NewWorld(mods,
              [iron_deposit |-> NewDeposit("iron_ore", ironTotal, 1, TRUE),
               coal_deposit |-> NewDeposit("coal", 1000, 1, TRUE),
               copper_deposit |-> NewDeposit("copper_ore", 1000, 1, TRUE)],
              capacity, 1) :
        mods \in {<<DeadEndModule>>, <<CoalModule(5), CopperModule>>,
                  <<CopperModule, CoalModule(5)>>, <<ChainModule(5, 3, 3)>>},
        ironTotal \in {3, 1000},
        capacity \in {NoCapacity, [iron_ore |-> 3]}}

InitTick ==
    \E w \in TickCallWorlds :
        /\ modules = w.modules
        /\ slotBuffers = [m \in 1..Len(w.modules) |-> [id \in {} |-> NewBuffer(0)]]
        /\ globalStorage = NewStorage(w.capacity)
        /\ deposits = w.deposits
        /\ tickRate = w.tickRate
        /\ machineInventory = NoInventory
        /\ simulator = NewSimulator
        /\ pc = Idle
        /\ ticks = 0
        /\ ops = 0
        /\ hist = NewHist(slotBuffers, globalStorage, deposits,
                          [d \in DOMAIN w.deposits |-> 0])
        /\ last = NoCall

\* module.tick(dt, globalStorage?, defs, deposits): the guards, the slot
\* buffer maintenance, the production loop and the transfer loop
ModuleTickCall ==
    /\ pc = Idle
    /\ ops < MaxCalls
    /\ \E m \in 1..Len(modules), given \in BOOLEAN :
        LET mod == modules[m]
            kept == UpdateSlotBuffers(mod, slotBuffers[m])
            prod == ProduceSlots(mod.machineSlots, kept, deposits, tickRate)
            xfer == TransferLinks(mod.links, prod.bufs, globalStorage, tickRate, given)
        IN IF ModuleRuns(mod)
           THEN /\ slotBuffers' = [slotBuffers EXCEPT ![m] = xfer.bufs]
                /\ globalStorage' = xfer.st
                /\ deposits' = prod.deps
                /\ last' = [op |-> "moduleTick", m |-> m, given |-> given,
                            ran |-> TRUE,
                            produced |-> [bufs |-> prod.bufs, st |-> globalStorage,
                                          moved |-> 0],
                            deps |-> prod.deps,
                            steps |-> xfer.steps]
           ELSE /\ UNCHANGED <<simulator, slotBuffers, globalStorage, deposits>>
                /\ last' = [op |-> "moduleTick", m |-> m, given |-> given,
                            ran |-> FALSE]
    /\ ops' = ops + 1
    /\ hist' = NewHist(slotBuffers', globalStorage', deposits', hist.minedInto)
    /\ UNCHANGED <<simulator, machineInventory, modules, tickRate, pc, ticks>>

NextTick == ModuleTickCall

SpecTick == InitTick /\ [][NextTick]_vars

---------------------------------------------------------------------------
(* A world left to tick: World.tick is the only operation, called again    *)
(* and again by the simulator's timer                                      *)

\* Worlds whose deposits are small: a miner slot feeding global storage and
\* the miners-and-furnaces chain
QuietWorlds ==
    {NewWorld(<<MinerModule(count, "basic_pipe")>>,
              [iron_deposit |-> NewDeposit("iron_ore", total, 1, discovered)],
              NoCapacity, 1) :
        count \in {1, 5}, total \in {2, 3}, discovered \in BOOLEAN}
    \cup
    {NewWorld(<<ChainModule(3, 2, 3)>>,
              [iron_deposit |-> NewDeposit("iron_ore", 3, 1, TRUE),
               coal_deposit |-> NewDeposit("coal", coalTotal, 1, TRUE)],
              NoCapacity, 1) :
        coalTotal \in {2, 4}}

InitQuiet ==
    \E w \in QuietWorlds :
        /\ modules = w.modules
        /\ slotBuffers = [m \in 1..Len(w.modules) |-> [id \in {} |-> NewBuffer(0)]]
        /\ globalStorage = NewStorage(w.capacity)
        /\ deposits = w.deposits
        /\ tickRate = w.tickRate
        /\ machineInventory = NoInventory
        /\ simulator = NewSimulator
        /\ pc = Idle
        /\ ticks = 0
        /\ ops = 0
        /\ hist = NewHist(slotBuffers, globalStorage, deposits,
                          [d \in DOMAIN w.deposits |-> 0])
        /\ last = NoCall

NextQuiet ==
    \/ TickStart
    \/ ModuleTick
    \/ ProduceStep
    \/ RunTransfers
    \/ TransferStep

\* The timer keeps calling World.tick and a tick, once begun, runs to its end
SpecQuiet == InitQuiet /\ [][NextQuiet]_vars /\ WF_vars(NextQuiet)

---------------------------------------------------------------------------
(* The simulator: start, stop and the callbacks of its interval timer      *)

\* simulator.start(intervalMs)
StartCall ==
    /\ ops < MaxCalls
    /\ simulator' = SimulatorStart(simulator)
    /\ last' = [op |-> "start", before |-> simulator]
    /\ ops' = ops + 1
    /\ UNCHANGED <<modules, slotBuffers, globalStorage, deposits, tickRate,
                   machineInventory, pc, ticks, hist>>

\* simulator.stop()
StopCall ==
    /\ ops < MaxCalls
    /\ simulator' = SimulatorStop(simulator)
    /\ last' = [op |-> "stop", before |-> simulator]
    /\ ops' = ops + 1
    /\ UNCHANGED <<modules, slotBuffers, globalStorage, deposits, tickRate,
                   machineInventory, pc, ticks, hist>>

\* The callback of a registered interval timer runs:
\* if (this.running) this.world.tick()
TimerFires ==
    /\ ticks < MaxTicks
    /\ \E id \in simulator.timers,
          after \in {WorldTick(modules, slotBuffers, globalStorage, deposits, tickRate)} :
        /\ IF simulator.running
           THEN /\ slotBuffers' = after.bufs
                /\ globalStorage' = after.st
                /\ deposits' = after.deps
                /\ ticks' = ticks + 1
           ELSE UNCHANGED <<slotBuffers, globalStorage, deposits, ticks>>
        /\ last' = [op |-> "timer", id |-> id, before |-> simulator]
    /\ UNCHANGED <<simulator, modules, tickRate, machineInventory, pc, ops, hist>>

NextSim == StartCall \/ StopCall \/ TimerFires

SpecSim == InitSave /\ [][NextSim]_vars

---------------------------------------------------------------------------
(* Properties                                                              *)

\* A tick is in progress or has just completed, with no edit since it began
InTick == hist.trace # <<>>

\* A tick has completed and nothing was edited since
TickDone == pc = Idle /\ InTick

\* The deposits of the world, by id
DepositIds == DOMAIN deposits

\* C1. Conservation: at every point of a World tick and for every resource
\* r, the total of r over all slot buffers (input and output side) and the
\* global storage has grown since the tick began by at most the amount of r
\* that deposits gave up (Deposit.extract's returns) during the tick.
C1_Conservation ==
    \A r \in Resources :
        Total(slotBuffers, globalStorage, r) - hist.startTotal[r] <= hist.extracted[r]

\* C2. Deposit depletion clamp: the amount that mining slots bound to a
\* deposit have put into buffers never exceeds the deposit's totalAmount,
\* remainingAmount never goes below 0, and a deposit at 0 is depleted; with
\* totalAmount 10 and 5 miners, global storage holds exactly 10 after 3 ticks.
C2_DepletionClamp ==
    /\ \A d \in DepositIds :
        /\ hist.minedInto[d] <= deposits[d].totalAmount
        /\ deposits[d].remainingAmount >= 0
        /\ (deposits[d].remainingAmount = 0 => IsDepleted(deposits[d]))
    /\ (/\ modules = <<MinerModule(5, "basic_pipe")>>
        /\ deposits["iron_deposit"].totalAmount = 10
        /\ deposits["iron_deposit"].yieldRate = 1
        /\ deposits["iron_deposit"].discovered
        /\ ops = 0 /\ pc = Idle /\ ticks = 3)
            => /\ StorageGet(globalStorage, "iron_ore") = 10
               /\ IsDepleted(deposits["iron_deposit"])

\* The production loop is at a slot / the transfer loop is at a link
AtProduce == pc.phase = "prod" /\ pc.i >= 1

\* The rate of resource r among the entries of a recipe side (0 if absent)
RateOf(rates, r) ==
    LET S == {i \in 1..Len(rates) : rates[i].resource = r}
    IN IF S = {} THEN 0 ELSE rates[CHOOSE i \in S : TRUE].rate

\* The gate as the specification states it, for slot `slot` with buffer `b`
\* and yield multiplier y
GateHolds(slot, b, y) ==
    LET recipe == Recipes[slot.recipe]
    IN \A r \in Resources :
        /\ RateOf(recipe.inputRates, r) > 0 =>
             Get(b.input, r) >= RateOf(recipe.inputRates, r) * slot.machineCount * tickRate
        /\ RateOf(recipe.outputRates, r) > 0 =>
             Get(b.output, r)
               + RateOf(recipe.outputRates, r) * slot.machineCount * tickRate * y
               <= b.capacity

\* Buffer a is buffer b with the whole recipe of `slot` applied once
RecipeApplied(slot, b, a, y) ==
    LET recipe == Recipes[slot.recipe]
    IN /\ a.capacity = b.capacity
       /\ \A r \in Resources :
            /\ Get(a.input, r) =
                 Get(b.input, r)
                   - RateOf(recipe.inputRates, r) * slot.machineCount * tickRate
            /\ Get(a.output, r) =
                 Get(b.output, r)
                   + RateOf(recipe.outputRates, r) * slot.machineCount * tickRate * y

\* The step of the production loop at slot pc.i, as the claim describes it
AllOrNothingStep ==
    LET slot == modules[pc.m].machineSlots[pc.i]
        bufs == slotBuffers[pc.m]
        after == slotBuffers'[pc.m]
        untouched == slotBuffers' = slotBuffers /\ deposits' = deposits
        active == slot.machineCount > 0 /\ HasRecipe(slot) /\ slot.slotId \in DOMAIN bufs
        check == DepositCheck(slot, Recipes[slot.recipe], deposits)
    IN /\ \A m \in 1..Len(modules) : m # pc.m => slotBuffers'[m] = slotBuffers[m]
       /\ DOMAIN after = DOMAIN bufs
       /\ \A id \in DOMAIN bufs : id # slot.slotId => after[id] = bufs[id]
       /\ globalStorage' = globalStorage
       /\ IF ~active THEN untouched
          ELSE /\ \/ untouched
                  \/ \E y \in {1, check.yieldMultiplier} :
                        /\ GateHolds(slot, bufs[slot.slotId], y)
                        /\ RecipeApplied(slot, bufs[slot.slotId], after[slot.slotId], y)
               /\ (~check.skip /\ GateHolds(slot, bufs[slot.slotId], check.yieldMultiplier))
                    => RecipeApplied(slot, bufs[slot.slotId], after[slot.slotId],
                                     check.yieldMultiplier)
               /\ ~GateHolds(slot, bufs[slot.slotId], check.yieldMultiplier) => untouched

\* C3. All-or-nothing production: a step of the production loop either
\* leaves the slot's input side, output side and every deposit exactly as
\* they were, or the gate held before it and every input decrement and every
\* output increment of the recipe is applied; a slot whose gate holds (and
\* whose deposit check passes) applies the whole recipe, a slot whose gate
\* fails changes nothing.
C3_AllOrNothing == [][AtProduce => AllOrNothingStep]_vars

\* A furnace was held back by the gate while holding iron ore but not enough
\* coal, and kept its iron ore
C3_Witness ==
    /\ TickDone
    /\ \E x \in hist.blocked :
        LET before == hist.startBufs[x[1]][x[2]]
            b == slotBuffers[x[1]][x[2]]
        IN /\ x[2] = "furnaces"
           /\ x[2] \in DOMAIN hist.startBufs[x[1]]
           /\ Get(before.input, "iron_ore") >= 3
           /\ Get(before.input, "coal") \in 1..2
           /\ Get(b.input, "iron_ore") >= Get(before.input, "iron_ore")
           /\ Get(b.input, "coal") >= Get(before.input, "coal")
           /\ b.output = before.output

\* The deposit a mining slot may produce from: bound, present, discovered
\* and not depleted
DepositUsable(slot) ==
    /\ slot.depositId # NoDeposit
    /\ slot.depositId \in DOMAIN deposits
    /\ deposits[slot.depositId].discovered
    /\ ~IsDepleted(deposits[slot.depositId])

\* C4. A slot with a zero-input (mining) recipe produces only from a bound,
\* present, discovered, non-depleted deposit: in every other case the step of
\* the production loop at that slot changes no slot buffer and no deposit.
C4_MiningNeedsDeposit ==
    [][(AtProduce
        /\ HasRecipe(modules[pc.m].machineSlots[pc.i])
        /\ IsMining(Recipes[modules[pc.m].machineSlots[pc.i].recipe])
        /\ ~DepositUsable(modules[pc.m].machineSlots[pc.i]))
       => (slotBuffers' = slotBuffers /\ deposits' = deposits)]_vars

\* The world of the single-miner test: one miner (rate 1) on an undepleted
\* deposit of yield 1, a pipe of throughput >= 1 to an unbounded global
\* storage, dt = 1, never edited
SingleMinerWorld ==
    /\ ops = 0
    /\ tickRate = 1
    /\ \E pipeType \in DOMAIN Pipes : modules = <<MinerModule(1, pipeType)>>
    /\ globalStorage.capacity = NoCapacity
    /\ deposits["iron_deposit"].discovered
    /\ deposits["iron_deposit"].yieldRate = 1

\* C5. Single-slot exact yield: after n ticks of the single-miner world,
\* n not exceeding the deposit's totalAmount, global storage holds exactly n
\* iron_ore and the deposit's remainingAmount is reduced by exactly n.
C5_SingleSlotYield ==
    (SingleMinerWorld /\ pc = Idle /\ ticks <= deposits["iron_deposit"].totalAmount)
        => /\ StorageGet(globalStorage, "iron_ore") = ticks
           /\ deposits["iron_deposit"].remainingAmount
                = deposits["iron_deposit"].totalAmount - ticks

\* Three ticks of the single-miner world have completed
C5_Witness ==
    /\ SingleMinerWorld
    /\ TickDone
    /\ ticks = 3
    /\ StorageGet(globalStorage, "iron_ore") = 3
    /\ deposits["iron_deposit"].totalAmount = 10

\* The world of the balanced chain test: 3 iron miners, 3 coal miners and 3
\* furnaces over deposits that outlast the ticks run so far, never edited
BalancedChainWorld ==
    /\ ops = 0
    /\ tickRate = 1
    /\ modules = <<ChainModule(3, 3, 3)>>
    /\ globalStorage.capacity = NoCapacity
    /\ \A d \in {"iron_deposit", "coal_deposit"} :
        deposits[d].discovered /\ deposits[d].yieldRate = 1
                               /\ deposits[d].totalAmount >= 3 * ticks

\* C6. Balanced chain exactness: after n+1 ticks of the balanced chain,
\* global storage holds exactly 3*n iron_ingot and no iron_ore and no coal,
\* each deposit is reduced by exactly 3*(n+1), and the furnaces produce in
\* every tick after the first.
C6_BalancedChain ==
    (BalancedChainWorld /\ TickDone)
        => /\ StorageGet(globalStorage, "iron_ingot") = 3 * (ticks - 1)
           /\ StorageGet(globalStorage, "iron_ore") = 0
           /\ StorageGet(globalStorage, "coal") = 0
           /\ \A d \in {"iron_deposit", "coal_deposit"} :
                deposits[d].remainingAmount = deposits[d].totalAmount - 3 * ticks
           /\ (<<1, "furnaces">> \in hist.committed) <=> (ticks >= 2)

\* The balanced chain after its warm-up tick and two producing ticks
C6_Witness ==
    /\ BalancedChainWorld
    /\ TickDone
    /\ ticks = 3
    /\ <<1, "furnaces">> \in hist.committed
    /\ StorageGet(globalStorage, "iron_ingot") = 6

\* The world of the multi-module test, in either module order: module A
\* mines coal into global storage at a rate within the throughput of the link
\* by which module B draws coal from global storage; never edited
CoupledWorld ==
    /\ ops = 0
    /\ tickRate = 1
    /\ globalStorage.capacity = NoCapacity
    /\ \E count \in 1..Pipes["basic_pipe"].throughput :
        modules \in {<<CoalModule(count), CopperModule>>,
                     <<CopperModule, CoalModule(count)>>}

\* The index of module B (copper production) in the module list
CopperIndex == CHOOSE m \in 1..Len(modules) : modules[m] = CopperModule

IsPhaseEvent(e) == e.kind # "extract"

\* The module visits of the current tick, without the extractions
PhaseEvents == SelectSeq(hist.trace, IsPhaseEvent)

HasLinkIssue(m) ==
    \/ \E i \in 1..Len(m.machineSlots) :
        LET slot == m.machineSlots[i]
        IN /\ slot.recipe \in DOMAIN Recipes
           /\ \E r \in Resources :
                \/ /\ RateOf(Recipes[slot.recipe].inputRates, r) > 0
                   /\ ~\E l \in 1..Len(m.links) :
                        m.links[l].toId = slot.slotId /\ m.links[l].resource = r
                \/ /\ RateOf(Recipes[slot.recipe].outputRates, r) > 0
                   /\ ~\E l \in 1..Len(m.links) :
                        m.links[l].fromId = slot.slotId /\ m.links[l].resource = r
    \/ \E l \in 1..Len(m.links) :
        \E end \in {m.links[l].fromId, m.links[l].toId} :
            /\ end # GLOBAL_STORAGE
            /\ ~\E i \in 1..Len(m.machineSlots) : m.machineSlots[i].slotId = end

\* The module is disabled or invalid
Skipped(m) == ~m.enabled \/ HasLinkIssue(m)

\* What a step may do to a skipped module, and what a step positioned at a
\* skipped module may do at all: nothing but pass on to the next module
SkippedStep ==
    \A m \in 1..Len(modules) :
        Skipped(modules[m]) =>
            /\ slotBuffers'[m] = slotBuffers[m]
            /\ (pc.phase # "idle" /\ pc.m = m) =>
                /\ globalStorage' = globalStorage
                /\ deposits' = deposits
                /\ pc.i = 0
                /\ pc' = AfterModule(modules, pc.phase, pc.pass, m)

\* Every module was visited by the completed tick, and ran unless skipped
OthersTicked ==
    TickDone =>
        \A m \in 1..Len(modules) :
            /\ \E k \in 1..Len(hist.trace) :
                hist.trace[k] = [kind |-> "prod", m |-> m, ran |-> ~Skipped(modules[m])]
            /\ Skipped(modules[m]) =>
                /\ slotBuffers[m] = hist.startBufs[m]
                /\ \A x \in hist.committed \cup hist.blocked : x[1] # m

\* C9. A disabled or invalid module is skipped entirely by a tick: no step
\* changes its slot buffers, the steps at that module change neither global
\* storage nor any deposit and pass on to the next module, and the other
\* modules of the world are still ticked.
C9_SkippedModule == [][SkippedStep]_vars /\ []OthersTicked

\* A module paused while holding resources sat out a tick in which another
\* module produced
C9_Witness ==
    /\ TickDone
    /\ \E m \in 1..Len(modules) :
        /\ Skipped(modules[m])
        /\ \E r \in Resources : BufferTotal(slotBuffers[m], DOMAIN slotBuffers[m], r) > 0
        /\ \E x \in hist.committed : x[1] # m

\* The slots of module m with id `id` whose recipe has input (output) r and
\* which no link of m reaches (leaves) with r
SlotsMissingInput(m, id, r) ==
    {i \in 1..Len(m.machineSlots) :
        /\ m.machineSlots[i].slotId = id
        /\ m.machineSlots[i].recipe \in DOMAIN Recipes
        /\ RateOf(Recipes[m.machineSlots[i].recipe].inputRates, r) > 0
        /\ ~\E l \in 1..Len(m.links) :
                m.links[l].toId = id /\ m.links[l].resource = r}

SlotsMissingOutput(m, id, r) ==
    {i \in 1..Len(m.machineSlots) :
        /\ m.machineSlots[i].slotId = id
        /\ m.machineSlots[i].recipe \in DOMAIN Recipes
        /\ RateOf(Recipes[m.machineSlots[i].recipe].outputRates, r) > 0
        /\ ~\E l \in 1..Len(m.links) :
                m.links[l].fromId = id /\ m.links[l].resource = r}

\* How many entries of the issue list are the issue x
CountIssue(issues, x) == Cardinality({k \in 1..Len(issues) : issues[k] = x})

\* The module of the link validation test: a miner slot, a furnace slot
ValidationTestSlots ==
    <<Slot("miners", "miner", "mine_iron", 1, NoDeposit),
      Slot("furnaces", "furnace", "smelt_iron", 1, NoDeposit)>>

\* C10. validateLinks reports exactly one issue for every (slot, input
\* resource) pair without a link into the slot carrying that resource and
\* one for every (slot, output resource) pair without a link out of the slot
\* carrying it, each naming the slot and the resource; valid is true exactly
\* when the issue list is empty; the miner-and-furnace module without links
\* is invalid, with issues for the iron_ore and coal inputs and the
\* iron_ingot output.
C10_ValidateLinks ==
    \A n \in 1..Len(modules) :
        LET m == modules[n]
            v == ValidateLinks(m)
            ids == {m.machineSlots[i].slotId : i \in 1..Len(m.machineSlots)}
        IN /\ \A id \in ids, r \in Resources :
                /\ CountIssue(v.issues, Issue("missing_input", id, r))
                     = Cardinality(SlotsMissingInput(m, id, r))
                /\ CountIssue(v.issues, Issue("missing_output", id, r))
                     = Cardinality(SlotsMissingOutput(m, id, r))
           /\ \A k \in 1..Len(v.issues) :
                v.issues[k].kind \in {"missing_input", "missing_output"}
                    => v.issues[k].subject \in ids /\ v.issues[k].what \in Resources
           /\ v.valid <=> (v.issues = <<>>)
           /\ (m.machineSlots = ValidationTestSlots /\ m.links = <<>>)
                => /\ ~v.valid
                   /\ CountIssue(v.issues, Issue("missing_input", "furnaces", "iron_ore")) = 1
                   /\ CountIssue(v.issues, Issue("missing_input", "furnaces", "coal")) = 1
                   /\ CountIssue(v.issues, Issue("missing_output", "furnaces", "iron_ingot")) = 1

\* The furnaces receive iron_ore by a link but no coal: the coal input and
\* the iron_ingot output are reported, the iron_ore input is not
C10_Witness ==
    /\ modules[1].machineSlots = ValidationTestSlots
    /\ modules[1].links = <<Link("ore", "miners", "furnaces", "iron_ore", "basic_pipe")>>
    /\ ValidateLinks(modules[1]).issues =
         <<Issue("missing_input", "furnaces", "coal"),
           Issue("missing_output", "furnaces", "iron_ingot")>>

\* C11. For any module and any call of validateLinks, with or without a
\* recipe table, every link whose fromId or toId is neither a slot id of the
\* module nor 'global_storage' is named by an issue and makes valid false;
\* valid depends on the issues alone, never on the warnings.
C11_InvalidEndpoints ==
    last.op = "validateLinks" =>
        LET m == last.module
            v == last.ret
            ids == {m.machineSlots[i].slotId : i \in 1..Len(m.machineSlots)}
                   \cup {GLOBAL_STORAGE}
        IN /\ \A l \in 1..Len(m.links) :
                /\ m.links[l].fromId \notin ids =>
                     /\ ~v.valid
                     /\ \E k \in 1..Len(v.issues) :
                          v.issues[k] = Issue("invalid_source", m.links[l].id,
                                              m.links[l].fromId)
                /\ m.links[l].toId \notin ids =>
                     /\ ~v.valid
                     /\ \E k \in 1..Len(v.issues) :
                          v.issues[k] = Issue("invalid_target", m.links[l].id,
                                              m.links[l].toId)
           /\ v.valid <=> (v.issues = <<>>)

\* The transfer loop is at a link
AtTransfer == pc.phase = "xfer" /\ pc.i >= 1

\* The amount stored under key r of a ResourceAmount
Held(obj, r) == IF r \in DOMAIN obj THEN obj[r] ELSE 0

\* What the source of a link holds of the link's resource, and what its
\* target holds, in slot buffers bufs and storage st
SourceHeld(link, bufs, st) ==
    IF link.fromId = GLOBAL_STORAGE THEN Held(st.contents, link.resource)
    ELSE Held(bufs[link.fromId].output, link.resource)

TargetHeld(link, bufs, st) ==
    IF link.toId = GLOBAL_STORAGE THEN Held(st.contents, link.resource)
    ELSE Held(bufs[link.toId].input, link.resource)

\* The free capacity of the target as stated: slot capacity minus the input
\* amount; storage capacity minus contents, unbounded without a capacity
StatedSpace(link, bufs, st) ==
    IF link.toId = GLOBAL_STORAGE
    THEN IF link.resource \in DOMAIN st.capacity
         THEN st.capacity[link.resource] - Held(st.contents, link.resource)
         ELSE Infinity
    ELSE bufs[link.toId].capacity - Held(bufs[link.toId].input, link.resource)

StatedAmount(link, bufs, st) ==
    Min3(SourceHeld(link, bufs, st), StatedSpace(link, bufs, st),
         Pipes[link.pipeType].throughput * tickRate)

BothResolve(link, bufs) ==
    /\ link.fromId = GLOBAL_STORAGE \/ link.fromId \in DOMAIN bufs
    /\ link.toId = GLOBAL_STORAGE \/ link.toId \in DOMAIN bufs

\* The step of the transfer loop at link pc.i moves exactly the stated amount
ExactTransferStep ==
    LET link == modules[pc.m].links[pc.i]
        bufs == slotBuffers[pc.m]
        amount == StatedAmount(link, bufs, globalStorage)
    IN BothResolve(link, bufs) =>
        IF amount <= 0
        THEN slotBuffers' = slotBuffers /\ globalStorage' = globalStorage
        ELSE /\ SourceHeld(link, slotBuffers'[pc.m], globalStorage')
                  = SourceHeld(link, bufs, globalStorage) - amount
             /\ TargetHeld(link, slotBuffers'[pc.m], globalStorage')
                  = TargetHeld(link, bufs, globalStorage) + amount

\* C12. For one link in one transfer pass with both endpoints resolved, the
\* amount moved is exactly min(available, space, throughput*dt), available
\* being what the source holds of the resource and space the target's free
\* capacity (unbounded for a storage without a capacity for the resource);
\* when that value is <= 0 nothing changes.
C12_TransferAmount == [][AtTransfer => ExactTransferStep]_vars

\* The step of the transfer loop at link pc.i takes from its source what it
\* gives to its target and changes the total of no resource
ConservingTransferStep ==
    LET link == modules[pc.m].links[pc.i]
        bufs == slotBuffers[pc.m]
    IN /\ \A r \in Resources :
            Total(slotBuffers', globalStorage', r) = Total(slotBuffers, globalStorage, r)
       /\ BothResolve(link, bufs) =>
            SourceHeld(link, bufs, globalStorage)
                - SourceHeld(link, slotBuffers'[pc.m], globalStorage')
            = TargetHeld(link, slotBuffers'[pc.m], globalStorage')
                - TargetHeld(link, bufs, globalStorage)

\* C13. Every link transfer removes from its source exactly the amount it
\* adds to its target, so every step of a transfer pass leaves the total of
\* every resource over all slot buffers plus global storage unchanged.
C13_TransferConserves == [][AtTransfer => ConservingTransferStep]_vars

\* A link has just moved ore into a global storage with a capacity, onto ore
\* already there, and the total of the pass is what it started with
C13_Witness ==
    /\ pc.phase = "xfer"
    /\ hist.moved # <<>>
    /\ hist.moved[Len(hist.moved)] > 0
    /\ "iron_ore" \in DOMAIN globalStorage.capacity
    /\ Held(hist.passStorage.contents, "iron_ore") > 0
    /\ Held(globalStorage.contents, "iron_ore")
         > Held(hist.passStorage.contents, "iron_ore")
    /\ \A r \in Resources :
        Total(slotBuffers, globalStorage, r) = Total(hist.passBufs, hist.passStorage, r)

\* The links of the transfer pass under way and what the first k-1 of them
\* moved of resource r out of / into endpoint e
PassLinks == modules[hist.passModule].links

RECURSIVE MovedOut(_, _, _)
MovedOut(e, r, k) ==
    IF k <= 1 THEN 0
    ELSE MovedOut(e, r, k - 1)
         + (IF PassLinks[k - 1].fromId = e /\ PassLinks[k - 1].resource = r
            THEN hist.moved[k - 1] ELSE 0)

RECURSIVE MovedIn(_, _, _)
MovedIn(e, r, k) ==
    IF k <= 1 THEN 0
    ELSE MovedIn(e, r, k - 1)
         + (IF PassLinks[k - 1].toId = e /\ PassLinks[k - 1].resource = r
            THEN hist.moved[k - 1] ELSE 0)

\* What link k finds when its turn comes: the source's amount and the
\* target's free space as the pass began, less what the links before it took
\* from that source, plus what they put there, and likewise for the target
AvailableFor(k) ==
    LET link == PassLinks[k]
        bufs == hist.passBufs[hist.passModule]
    IN IF link.fromId = GLOBAL_STORAGE
       THEN Held(hist.passStorage.contents, link.resource)
              - MovedOut(GLOBAL_STORAGE, link.resource, k)
              + MovedIn(GLOBAL_STORAGE, link.resource, k)
       ELSE Held(bufs[link.fromId].output, link.resource)
              - MovedOut(link.fromId, link.resource, k)

SpaceFor(k) ==
    LET link == PassLinks[k]
        bufs == hist.passBufs[hist.passModule]
    IN IF link.toId = GLOBAL_STORAGE
       THEN StorageCapacity(hist.passStorage, link.resource)
              - (Held(hist.passStorage.contents, link.resource)
                   - MovedOut(GLOBAL_STORAGE, link.resource, k)
                   + MovedIn(GLOBAL_STORAGE, link.resource, k))
       ELSE bufs[link.toId].capacity
              - (Held(bufs[link.toId].input, link.resource)
                   + MovedIn(link.toId, link.resource, k))

\* C14. Greedy list-order arbitration: within the transfer pass of a module
\* the k-th link moves min(available, space, throughput*dt) computed on the
\* state the links before it left (nothing if that is <= 0); of two links on
\* the same source or the same target the earlier is computed on the full
\* amount and the later on what remains.
C14_GreedyArbitration ==
    (hist.passModule # 0 /\ hist.moved # <<>>) =>
        \A k \in 1..Len(hist.moved) :
            BothResolve(PassLinks[k], hist.passBufs[hist.passModule]) =>
                hist.moved[k] =
                    Max2(0, Min3(AvailableFor(k), SpaceFor(k),
                                 Pipes[PassLinks[k].pipeType].throughput * tickRate))

\* The first link took all the iron miners held, the second link on the same
\* slot moved nothing
C14_Witness ==
    /\ hist.passModule # 0
    /\ Len(hist.moved) >= 2
    /\ PassLinks[1].fromId = PassLinks[2].fromId
    /\ PassLinks[1].resource = PassLinks[2].resource
    /\ hist.moved[1] > 0
    /\ hist.moved[1] = Held(hist.passBufs[hist.passModule][PassLinks[1].fromId].output,
                            PassLinks[1].resource)
    /\ hist.moved[2] = 0

\* Every key present in a ResourceAmount maps to a positive amount
AllPositive(obj) == \A r \in DOMAIN obj : obj[r] > 0

\* C16. No zero or negative entries: no slot input side, slot output side or
\* storage contents map ever holds a key whose value is <= 0.
C16_NoZeroEntries ==
    /\ AllPositive(globalStorage.contents)
    /\ \A m \in 1..Len(slotBuffers) :
        \A id \in DOMAIN slotBuffers[m] :
            /\ AllPositive(slotBuffers[m][id].input)
            /\ AllPositive(slotBuffers[m][id].output)

\* C17. Storage capacity invariant: between calls, every resource with a
\* configured capacity holds at least 0 and at most that capacity.
C17_StorageCapacity ==
    \A r \in DOMAIN globalStorage.capacity :
        /\ 0 <= Held(globalStorage.contents, r)
        /\ Held(globalStorage.contents, r) <= globalStorage.capacity[r]

\* The free space of a storage for r: capacity minus contents, unbounded
\* when no capacity is configured for r
StatedFree(st, r) ==
    IF r \in DOMAIN st.capacity THEN st.capacity[r] - Held(st.contents, r)
    ELSE Infinity

\* The storage differs from st at most in the amount held of r
SameButFor(st, r) ==
    /\ globalStorage.capacity = st.capacity
    /\ \A k \in (DOMAIN globalStorage.contents \cup DOMAIN st.contents) \ {r} :
        /\ k \in DOMAIN globalStorage.contents
        /\ k \in DOMAIN st.contents
        /\ globalStorage.contents[k] = st.contents[k]

\* C18. Storage.add returns the amount actually added, min(amount, free
\* space), which lies in [0, amount]; the contents of the resource grow by
\* exactly the returned value and never shrink; for amount <= 0 it returns 0
\* and changes nothing; without a configured capacity the resource is
\* unbounded.
C18_StorageAdd ==
    last.op = "add" =>
        LET held == Held(last.before.contents, last.resource)
        IN IF last.amount <= 0
           THEN last.ret = 0 /\ globalStorage = last.before
           ELSE /\ last.ret = Min2(last.amount, StatedFree(last.before, last.resource))
                /\ 0 <= last.ret /\ last.ret <= last.amount
                /\ Held(globalStorage.contents, last.resource) = held + last.ret
                /\ Held(globalStorage.contents, last.resource) >= held
                /\ SameButFor(last.before, last.resource)

\* C19. Storage.remove returns min(amount, contents), lowers the contents of
\* the resource by exactly the returned value, deletes the key when it
\* reaches 0, and returns 0 and changes nothing for amount <= 0 or an absent
\* resource.
C19_StorageRemove ==
    last.op = "remove" =>
        LET held == Held(last.before.contents, last.resource)
        IN IF last.amount <= 0 \/ last.resource \notin DOMAIN last.before.contents
           THEN last.ret = 0 /\ globalStorage = last.before
           ELSE /\ last.ret = Min2(last.amount, held)
                /\ Held(globalStorage.contents, last.resource) = held - last.ret
                /\ (held - last.ret = 0) =>
                        last.resource \notin DOMAIN globalStorage.contents
                /\ (held - last.ret > 0) =>
                        last.resource \in DOMAIN globalStorage.contents
                /\ SameButFor(last.before, last.resource)

\* A remove asked for more than was held: it returned what was held and the
\* key is gone
C19_Witness ==
    /\ last.op = "remove"
    /\ last.ret > 0
    /\ last.amount > last.ret
    /\ last.resource \notin DOMAIN globalStorage.contents

\* C20. Deposit.extract returns 0 and leaves remainingAmount unchanged when
\* the deposit is not discovered or already depleted; otherwise it returns
\* min(requested, remainingAmount) and lowers remainingAmount by exactly that.
C20_DepositExtract ==
    last.op = "extract" =>
        LET before == last.before
            now == deposits[last.deposit]
        IN IF ~before.discovered \/ before.remainingAmount <= 0
           THEN last.ret = 0 /\ now = before
           ELSE /\ last.ret = Min2(last.amount, before.remainingAmount)
                /\ now.remainingAmount = before.remainingAmount - last.ret
                /\ now = [before EXCEPT !.remainingAmount = now.remainingAmount]

\* An extract asked for more than remained: it returned the remainder and
\* the deposit is at 0
C20_Witness ==
    /\ last.op = "extract"
    /\ last.before.discovered
    /\ last.before.remainingAmount > 0
    /\ last.amount > last.before.remainingAmount
    /\ last.ret = last.before.remainingAmount
    /\ deposits[last.deposit].remainingAmount = 0

\* One step leaves deposit d's totalAmount alone, does not raise its
\* remainingAmount, keeps it within [0, totalAmount] and keeps a depleted
\* deposit depleted
DepositStepMonotonic(d) ==
    /\ d \in DOMAIN deposits'
    /\ deposits'[d].totalAmount = deposits[d].totalAmount
    /\ deposits'[d].remainingAmount <= deposits[d].remainingAmount
    /\ 0 <= deposits'[d].remainingAmount
    /\ deposits'[d].remainingAmount <= deposits'[d].totalAmount
    /\ IsDepleted(deposits[d]) => IsDepleted(deposits'[d])

\* C21. Depletion is monotonic and irreversible: over any sequence of
\* extract calls, a deposit's remainingAmount never increases and stays
\* within [0, totalAmount], totalAmount never changes, and a depleted
\* deposit stays depleted.
C21_DepletionMonotonic ==
    [][\A d \in DOMAIN deposits : DepositStepMonotonic(d)]_vars

\* Two modules with the same slots in the same order (slotId, machineType,
\* recipe, machineCount, depositId), the same links in the same order and
\* the same enabled flag
SameModule(a, b) ==
    /\ a.id = b.id
    /\ a.enabled = b.enabled
    /\ Len(a.machineSlots) = Len(b.machineSlots)
    /\ \A i \in 1..Len(a.machineSlots) :
        LET x == a.machineSlots[i]
            y == b.machineSlots[i]
        IN /\ x.slotId = y.slotId
           /\ x.machineType = y.machineType
           /\ x.recipe = y.recipe
           /\ x.machineCount = y.machineCount
           /\ x.depositId = y.depositId
    /\ a.links = b.links

\* Two worlds that are the same simulation state, slot buffers aside
EquivalentWorlds(a, b) ==
    /\ Len(a.modules) = Len(b.modules)
    /\ \A m \in 1..Len(a.modules) : SameModule(a.modules[m], b.modules[m])
    /\ a.globalStorage.contents = b.globalStorage.contents
    /\ a.globalStorage.capacity = b.globalStorage.capacity
    /\ a.deposits = b.deposits
    /\ a.tickRate = b.tickRate
    /\ DOMAIN a.machineInventory = DOMAIN b.machineInventory
    /\ \A t \in DOMAIN a.machineInventory :
        a.machineInventory[t].total = b.machineInventory[t].total

\* C22. Round trip: the world loaded from a saved world is an equivalent
\* simulation state: the same slots (including the depositId binding), links
\* and enabled flags, the same global storage, deposits, tick rate and
\* machine-inventory totals.
C22_RoundTrip ==
    last.op = "saveLoad" => EquivalentWorlds(last.after, last.before)

\* C23. Idempotent serialization: serializing the world loaded from
\* serialize(w) gives a snapshot equal to serialize(w).
C23_IdempotentSerialization ==
    last.op = "saveLoad" => SerializeWorld(last.after) = last.data

\* A world that ticked, with stored resources, a paused module, a deposit
\* bound to a slot and a machine inventory, was saved and loaded
C23_Witness ==
    /\ last.op = "saveLoad"
    /\ ticks >= 1
    /\ DOMAIN last.before.globalStorage.contents # {}
    /\ DOMAIN last.before.machineInventory # {}
    /\ \E m \in 1..Len(last.before.modules) : ~last.before.modules[m].enabled
    /\ \E m \in 1..Len(last.before.modules) :
        \E i \in 1..Len(last.before.modules[m].machineSlots) :
            last.before.modules[m].machineSlots[i].depositId # NoDeposit
    /\ TheWorld = last.after

\* The machines of a type in use: the sum of machineCount over the slots of
\* that type across all modules
RECURSIVE MachinesInUse(_, _)
MachinesInUse(mods, machineType) ==
    IF mods = <<>> THEN 0
    ELSE LET slots == Head(mods).machineSlots
             counts == [i \in 1..Len(slots) |->
                          IF slots[i].machineType = machineType
                          THEN slots[i].machineCount ELSE 0]
         IN SumAll(counts) + MachinesInUse(Tail(mods), machineType)

\* C24. After refreshMachineInventory, for every machine type of the
\* inventory, allocated is the sum of machineCount over all slots of that
\* type across all modules, available is total - allocated, and total is
\* what it was before the refresh.
C24_RefreshAllocated ==
    last.op = "refresh" =>
        /\ DOMAIN machineInventory = DOMAIN last.before.machineInventory
        /\ \A t \in DOMAIN machineInventory :
            /\ machineInventory[t].allocated = MachinesInUse(modules, t)
            /\ machineInventory[t].available =
                    machineInventory[t].total - machineInventory[t].allocated
            /\ machineInventory[t].total = last.before.machineInventory[t].total

\* The entry of machine type t in an inventory, all 0 when it has none
EntryOf(inv, t) ==
    IF t \in DOMAIN inv THEN inv[t]
    ELSE [total |-> 0, allocated |-> 0, available |-> 0]

\* C25. After any sequence of addMachinesToInventory and
\* refreshMachineInventory calls every entry has available = total -
\* allocated; addMachinesToInventory(type, count) raises the total of that
\* type by exactly count, leaves its allocated unchanged and leaves the
\* entries of all other types unchanged.
C25_InventoryAvailability ==
    /\ \A t \in DOMAIN machineInventory :
        machineInventory[t].available =
            machineInventory[t].total - machineInventory[t].allocated
    /\ last.op = "addMachines" =>
        LET before == last.before.machineInventory
        IN /\ DOMAIN machineInventory = DOMAIN before \cup {last.machineType}
           /\ machineInventory[last.machineType].total =
                    EntryOf(before, last.machineType).total + last.count
           /\ machineInventory[last.machineType].allocated =
                    EntryOf(before, last.machineType).allocated
           /\ \A t \in DOMAIN before \ {last.machineType} :
                    machineInventory[t] = before[t]

\* Machines were added to a type that already had some allocated
C25_Witness ==
    /\ last.op = "addMachines"
    /\ last.machineType \in DOMAIN last.before.machineInventory
    /\ last.before.machineInventory[last.machineType].allocated > 0
    /\ machineInventory[last.machineType].available > 0
    /\ Cardinality(DOMAIN machineInventory) > 1

\* The yield multiplier of a slot as stated: the bound deposit's yieldRate
\* for a mining recipe, 1 otherwise
StatedYield(slot) ==
    IF IsMining(Recipes[slot.recipe]) THEN deposits[slot.depositId].yieldRate ELSE 1

\* The slot at pc.i passes the production gate in this step
PassesGate ==
    <<pc.m, modules[pc.m].machineSlots[pc.i].slotId>> \in hist'.committed

\* The step of the production loop at a slot that passes the gate, as stated
ExactProductionStep ==
    LET slot == modules[pc.m].machineSlots[pc.i]
        recipe == Recipes[slot.recipe]
        before == slotBuffers[pc.m][slot.slotId]
        after == slotBuffers'[pc.m][slot.slotId]
        y == StatedYield(slot)
        scale == slot.machineCount * tickRate
        mined == SumAll([i \in 1..Len(recipe.outputRates) |->
                            recipe.outputRates[i].rate * scale * y])
    IN /\ \A r \in Resources :
            /\ Held(after.input, r) =
                 Held(before.input, r) - RateOf(recipe.inputRates, r) * scale
            /\ r \in DOMAIN after.input => after.input[r] # 0
            /\ Held(after.output, r) =
                 Held(before.output, r) + RateOf(recipe.outputRates, r) * scale * y
       /\ IsMining(recipe) =>
            deposits'[slot.depositId].remainingAmount =
                deposits[slot.depositId].remainingAmount - mined
       /\ \A d \in DOMAIN deposits :
            (~IsMining(recipe) \/ d # slot.depositId) => deposits'[d] = deposits[d]

\* C26. When a slot passes the production gate, each input of the recipe is
\* decremented by exactly inputRate * machineCount * dt (the key deleted at
\* 0), each output is incremented by exactly outputRate * machineCount * dt *
\* yieldMultiplier (the bound deposit's yieldRate for a mining recipe, 1
\* otherwise), and for a mining recipe the bound deposit's remainingAmount is
\* reduced by the amount produced.
C26_ExactProduction == [][(AtProduce /\ PassesGate) => ExactProductionStep]_vars

\* The production phase has just ended: every module has run its production
\* loop and no transfer pass has begun
EndOfProduction == pc = At("xfer", 1, 1, 0)

\* The orders the modules can be taken in, and per module the orders its
\* slots can be taken in
ModuleOrders == Permutations(1..Len(modules))

SlotOrders ==
    {so \in [1..Len(modules) ->
                UNION {Permutations(1..Len(modules[k].machineSlots)) :
                          k \in 1..Len(modules)}] :
        \A k \in 1..Len(modules) :
            so[k] \in Permutations(1..Len(modules[k].machineSlots))}

\* The production phase from slot buffers allBufs and deposits deps, taking
\* the modules in the order `order` and the slots of module k in the order
\* slotOrder[k]
RECURSIVE ProducePhase(_, _, _, _)
ProducePhase(order, slotOrder, allBufs, deps) ==
    IF order = <<>> THEN [bufs |-> allBufs, deps |-> deps]
    ELSE LET k == Head(order)
             m == modules[k]
             slots == [i \in 1..Len(m.machineSlots) |-> m.machineSlots[slotOrder[k][i]]]
             res == ProduceSlots(slots, UpdateSlotBuffers(m, allBufs[k]), deps, tickRate)
         IN IF ModuleRuns(m)
            THEN ProducePhase(Tail(order), slotOrder,
                              [allBufs EXCEPT ![k] = res.bufs], res.deps)
            ELSE ProducePhase(Tail(order), slotOrder, allBufs, deps)

\* Every order of modules and slots gives the state the phase ended in
OrderIndependent ==
    \A order \in ModuleOrders, slotOrder \in SlotOrders :
        ProducePhase(order, slotOrder, hist.startBufs, hist.startDeposits)
            = [bufs |-> slotBuffers, deps |-> deposits]

\* No deposit is bound to two slots of the world
NoSharedDeposit ==
    \A m1, m2 \in 1..Len(modules) :
        \A i1 \in 1..Len(modules[m1].machineSlots),
           i2 \in 1..Len(modules[m2].machineSlots) :
            (/\ <<m1, i1>> # <<m2, i2>>
             /\ modules[m1].machineSlots[i1].depositId # NoDeposit)
                => modules[m1].machineSlots[i1].depositId
                     # modules[m2].machineSlots[i2].depositId

\* C27 as stated. The result of the production phase (every slot buffer and
\* every deposit) does not depend on the order in which slots and modules
\* are processed.
C27_OrderIndependentAsStated == EndOfProduction => OrderIndependent

\* C27. The result of the production phase (every slot buffer and every
\* deposit) does not depend on the order in which slots and modules are
\* processed, provided no deposit is bound to more than one slot.
C27_OrderIndependent == (EndOfProduction /\ NoSharedDeposit) => OrderIndependent

\* A production phase in which slots of two modules, and two slots of one
\* module, produced and deposits were mined, none of them shared
C27_Witness ==
    /\ EndOfProduction
    /\ NoSharedDeposit
    /\ deposits # hist.startDeposits
    /\ \E x, y, z \in hist.committed :
        /\ x[1] # y[1]
        /\ y[1] = z[1] /\ y[2] # z[2]

\* A step of the tick of module pc.m (production or transfer)
ModuleStep == pc.phase # "idle"

\* The step changes no module's slots, links or enabled flag and no slot
\* buffer of a module other than pc.m
OtherModulesUntouched ==
    /\ modules' = modules
    /\ DOMAIN slotBuffers' = DOMAIN slotBuffers
    /\ \A m \in 1..Len(modules) : m # pc.m => slotBuffers'[m] = slotBuffers[m]

\* A deposit the step changes was changed by no other module in this tick
DepositsUnshared ==
    \A d \in DOMAIN deposits :
        deposits'[d] # deposits[d] => hist.changedBy[d] \subseteq {pc.m}

\* C28 as stated. Ticking a module never changes another module's slot
\* buffers, slots, links or enabled flag, and no deposit is changed by two
\* different modules in the same tick.
C28_OnlyStorageSharedAsStated ==
    [][ModuleStep => (OtherModulesUntouched /\ DepositsUnshared)]_vars

\* C28. Ticking a module never changes another module's slot buffers,
\* slots, links or enabled flag; the global storage and the deposits of the
\* shared deposit map are the objects that more than one module may change
\* in a tick.
C28_OnlyStorageShared == [][ModuleStep => OtherModulesUntouched]_vars

\* A tick in which two modules mined the same deposit and both moved coal
\* into global storage
C28_Witness ==
    /\ TickDone
    /\ Len(modules) = 2
    /\ \E d \in DOMAIN deposits : hist.changedBy[d] = {1, 2}
    /\ \A m \in 1..2 : DOMAIN slotBuffers[m] # {}
    /\ globalStorage # hist.startStorage

\* The slot-buffer maintenance step of module pc.m (Module.tick up to the
\* production loop, for a module that runs)
AtMaintenance ==
    pc.phase = "prod" /\ pc.i = 0 /\ ModuleRuns(modules[pc.m])

\* The slot has a machine definition with a buffer size
HasBufferSize(slot) ==
    /\ slot.machineType \in DOMAIN MachineDefs
    /\ MachineDefs[slot.machineType].bufferSize # 0

\* Maintenance gives every buffer of a slot with a buffer size the capacity
\* bufferSize * machineCount and leaves its input and output sides alone
ResizeKeepsContents ==
    \A i \in 1..Len(modules[pc.m].machineSlots) :
        LET slot == modules[pc.m].machineSlots[i]
            before == slotBuffers[pc.m]
            after == slotBuffers'[pc.m]
        IN (HasBufferSize(slot) /\ slot.slotId \in DOMAIN before) =>
            /\ slot.slotId \in DOMAIN after
            /\ after[slot.slotId].capacity =
                 MachineDefs[slot.machineType].bufferSize * slot.machineCount
            /\ after[slot.slotId].input = before[slot.slotId].input
            /\ after[slot.slotId].output = before[slot.slotId].output

\* A link into a slot whose input side holds at least the capacity of the
\* link's resource moves nothing
FullTargetRefuses ==
    LET link == modules[pc.m].links[pc.i]
        bufs == slotBuffers[pc.m]
    IN (/\ link.toId # GLOBAL_STORAGE
        /\ link.toId \in DOMAIN bufs
        /\ Held(bufs[link.toId].input, link.resource) >= bufs[link.toId].capacity)
            => (slotBuffers' = slotBuffers /\ globalStorage' = globalStorage)

\* A slot whose output side holds more than the capacity of a resource it
\* produces does not produce
OverfullSlotHeld ==
    LET slot == modules[pc.m].machineSlots[pc.i]
        bufs == slotBuffers[pc.m]
    IN (/\ HasRecipe(slot)
        /\ slot.slotId \in DOMAIN bufs
        /\ \E r \in Resources :
            /\ RateOf(Recipes[slot.recipe].outputRates, r) > 0
            /\ Held(bufs[slot.slotId].output, r) > bufs[slot.slotId].capacity)
            => (slotBuffers' = slotBuffers /\ deposits' = deposits)

\* C29. Resizing never truncates: the slot-buffer maintenance step sets a
\* buffer's capacity to bufferSize * machineCount and leaves its input and
\* output contents exactly as they were, even above the new capacity; a
\* buffer over capacity receives no transfer and passes no output gate.
C29_ResizeNeverTruncates ==
    [][/\ AtMaintenance => ResizeKeepsContents
       /\ AtTransfer => FullTargetRefuses
       /\ AtProduce => OverfullSlotHeld]_vars

\* A slot was shrunk below what its buffer holds: the contents are still
\* there, above the capacity, after a tick ran
OverCapacity(m, id) ==
    \E r \in Resources :
        \/ Held(slotBuffers[m][id].input, r) > slotBuffers[m][id].capacity
        \/ Held(slotBuffers[m][id].output, r) > slotBuffers[m][id].capacity

C29_Witness ==
    /\ TickDone
    /\ ops = 1
    /\ \E m \in 1..Len(modules) :
        \E i \in 1..Len(modules[m].machineSlots) :
            LET slot == modules[m].machineSlots[i]
            IN /\ slot.machineCount = 1
               /\ slot.slotId \in DOMAIN slotBuffers[m]
               /\ slot.slotId \in DOMAIN hist.startBufs[m]
               /\ slotBuffers[m][slot.slotId].capacity =
                    MachineDefs[slot.machineType].bufferSize
               /\ hist.startBufs[m][slot.slotId].capacity >
                    slotBuffers[m][slot.slotId].capacity
               /\ OverCapacity(m, slot.slotId)

\* After maintenance the buffers of module pc.m are those of the slots in
\* `slots`, and those that slots without a buffer size already had under
\* their id; a buffer that was not there is empty with capacity
\* bufferSize * machineCount
BuffersMatch(slots, others) ==
    LET before == slotBuffers[pc.m]
        after == slotBuffers'[pc.m]
        kept == {others[i].slotId : i \in 1..Len(others)} \cap DOMAIN before
    IN /\ DOMAIN after = {slots[i].slotId : i \in 1..Len(slots)} \cup kept
       /\ \A id \in kept \ {slots[i].slotId : i \in 1..Len(slots)} :
            after[id] = before[id]
       /\ \A i \in 1..Len(slots) :
            slots[i].slotId \notin DOMAIN before =>
                after[slots[i].slotId] =
                    NewBuffer(MachineDefs[slots[i].machineType].bufferSize
                                * slots[i].machineCount)

\* C30 as stated: after the maintenance step there is exactly one buffer
\* for every slot of the module and none for any other id.
C30_OneBufferPerSlotAsStated ==
    [][AtMaintenance => BuffersMatch(modules[pc.m].machineSlots, <<>>)]_vars

LacksBufferSize(slot) == ~HasBufferSize(slot)

\* C30, amended. After the slot-buffer maintenance step of a tick there is
\* exactly one buffer for every slot of the module whose machine type has a
\* definition with a buffer size, and none for any id that is not a slot of
\* the module; a slot whose machine type has no definition or no buffer
\* size gets no buffer (only a buffer already kept under its id stays, as
\* it was). A newly added slot with a buffer size gets a buffer with empty
\* input and output and capacity bufferSize * machineCount, and the buffer
\* of a removed slot is dropped together with its contents.
C30_OneBufferPerSlot ==
    [][AtMaintenance =>
        BuffersMatch(SelectSeq(modules[pc.m].machineSlots, HasBufferSize),
                     SelectSeq(modules[pc.m].machineSlots, LacksBufferSize))]_vars

\* A tick has run maintenance after a slot was added and after a slot whose
\* buffer held something was removed
C30_Witness ==
    /\ TickDone
    /\ \E m \in 1..Len(modules) :
        /\ ModuleRuns(modules[m])
        /\ \E id \in DOMAIN hist.startBufs[m] :
            /\ id \notin SlotIdsOf(modules[m])
            /\ id \notin DOMAIN slotBuffers[m]
            /\ \E r \in Resources : Held(hist.startBufs[m][id].output, r) > 0
        /\ \E id \in SlotIdsOf(modules[m]) :
            /\ id \notin DOMAIN hist.startBufs[m]
            /\ id \in DOMAIN slotBuffers[m]
            /\ slotBuffers[m][id] = NewBuffer(MachineDefs["furnace"].bufferSize * 2)

\* The positions of the saved links whose pipe type the pipe table has
KnownPositions(saved) ==
    {i \in 1..Len(saved) : saved[i].pipeType \in DOMAIN Pipes}

\* loaded is saved without the links of unknown pipe type, in the same order
SameLinksInOrder(saved, loaded) ==
    /\ Len(loaded) = Cardinality(KnownPositions(saved))
    /\ \A i \in KnownPositions(saved) :
        LET k == Cardinality({j \in KnownPositions(saved) : j <= i})
        IN /\ loaded[k].id = saved[i].id
           /\ loaded[k].fromId = saved[i].fromId
           /\ loaded[k].toId = saved[i].toId
           /\ loaded[k].resource = saved[i].resource
           /\ loaded[k].pipeType = saved[i].pipeType

\* loaded has the saved slots, one for one
SameSlots(saved, loaded) ==
    /\ Len(loaded) = Len(saved)
    /\ \A i \in 1..Len(saved) :
        /\ loaded[i].slotId = saved[i].slotId
        /\ loaded[i].machineType = saved[i].machineType
        /\ loaded[i].recipe = saved[i].recipe
        /\ loaded[i].machineCount = saved[i].machineCount

\* C31. Module.deserialize keeps every slot of the saved module and exactly
\* the links whose pipe type the pipe table has, in their original order; a
\* link of unknown pipe type is dropped without touching the other links,
\* the slots or the enabled flag, which is true when the field is absent.
C31_DeserializeDropsUnknownPipes ==
    last.op = "deserializeModule" =>
        /\ SameSlots(IF "machineSlots" \in DOMAIN last.data
                     THEN last.data.machineSlots ELSE <<>>,
                     last.ret.machineSlots)
        /\ SameLinksInOrder(IF "links" \in DOMAIN last.data
                            THEN last.data.links ELSE <<>>,
                            last.ret.links)
        /\ last.ret.enabled =
             (("enabled" \in DOMAIN last.data) => last.data.enabled)
        /\ modules = <<last.ret>>

\* A saved module without the enabled field whose middle link has an unknown
\* pipe type was loaded: the links around it are there
C31_Witness ==
    /\ last.op = "deserializeModule"
    /\ "enabled" \notin DOMAIN last.data
    /\ "links" \in DOMAIN last.data
    /\ "machineSlots" \in DOMAIN last.data
    /\ Len(last.data.machineSlots) = 2
    /\ Len(last.data.links) = 3
    /\ last.data.links[1].pipeType = "basic_pipe"
    /\ last.data.links[2].pipeType = "gold_pipe"
    /\ last.data.links[3].pipeType = "express_pipe"
    /\ Len(last.ret.links) = 2
    /\ Len(last.ret.machineSlots) = 2
    /\ last.ret.enabled

\* An endpoint that does not resolve: a slot id without a buffer, or
\* global_storage when no storage was given
Unresolved(id, bufs, given) ==
    IF id = GLOBAL_STORAGE THEN ~given ELSE id \notin DOMAIN bufs

\* The state the k-th link of the last module.tick call found
BeforeLink(k) == IF k = 1 THEN last.produced ELSE last.steps[k - 1]

\* C32. A link whose source or target does not resolve is a no-op for that
\* transfer pass: it changes no buffer, storage or deposit, and the links
\* after it are still processed.
C32_UnresolvedLinkNoOp ==
    (last.op = "moduleTick" /\ last.ran) =>
        LET links == modules[last.m].links
        IN /\ Len(last.steps) = Len(links)
           /\ \A k \in 1..Len(links) :
                LET before == BeforeLink(k)
                    lost == \/ Unresolved(links[k].fromId, before.bufs, last.given)
                            \/ Unresolved(links[k].toId, before.bufs, last.given)
                IN IF lost
                   THEN /\ last.steps[k].bufs = before.bufs
                        /\ last.steps[k].st = before.st
                        /\ last.steps[k].moved = 0
                   ELSE last.steps[k].moved =
                            ToTransfer(links[k], before.bufs, before.st, tickRate)
                            \/ (last.steps[k].moved = 0
                                /\ ToTransfer(links[k], before.bufs, before.st,
                                              tickRate) <= 0)
           /\ deposits = last.deps
           /\ Len(links) > 0 =>
                /\ slotBuffers[last.m] = last.steps[Len(links)].bufs
                /\ globalStorage = last.steps[Len(links)].st

\* A tick whose first link has no source buffer, whose second has no target
\* buffer while the source holds ore, and whose third then moved ore
C32_Witness ==
    /\ last.op = "moduleTick" /\ last.ran /\ last.given
    /\ Len(last.steps) = 3
    /\ LET links == modules[last.m].links
       IN /\ Unresolved(links[1].fromId, BeforeLink(1).bufs, TRUE)
          /\ Unresolved(links[2].toId, BeforeLink(2).bufs, TRUE)
          /\ Held(BeforeLink(2).bufs[links[2].fromId].output, links[2].resource) > 0
          /\ last.steps[3].moved > 0

\* What link i of module m moved since the tick began
MovedThisTick(m, i) ==
    IF <<m, i>> \in DOMAIN hist.linkMoved THEN hist.linkMoved[<<m, i>>] ELSE 0

\* Every link has moved at most `passes` times throughput * tickRate since
\* the tick began
LinksWithin(passes) ==
    \A m \in 1..Len(modules) :
        \A i \in 1..Len(modules[m].links) :
            MovedThisTick(m, i)
                <= passes * Pipes[modules[m].links[i].pipeType].throughput * tickRate

WithinCapacity(allBufs) ==
    \A m \in DOMAIN allBufs :
        \A id \in DOMAIN allBufs[m] :
            \A r \in Resources :
                /\ Held(allBufs[m][id].input, r) <= allBufs[m][id].capacity
                /\ Held(allBufs[m][id].output, r) <= allBufs[m][id].capacity

\* The step lowers the capacity of no buffer: no maintenance step acts on a
\* lowered machineCount
NoCapacityLowered ==
    \A m \in DOMAIN slotBuffers :
        \A id \in DOMAIN slotBuffers[m] \cap DOMAIN slotBuffers'[m] :
            slotBuffers'[m][id].capacity >= slotBuffers[m][id].capacity

\* C34. Buffer bounds: as long as no slot's machineCount has been lowered,
\* every slot buffer has input[r] <= capacity and output[r] <= capacity for
\* every resource r: buffers start within capacity, and no transfer, no
\* production and no other step that lowers no capacity takes them beyond.
C34_BufferBounds ==
    /\ WithinCapacity(slotBuffers)
    /\ [][(WithinCapacity(slotBuffers) /\ NoCapacityLowered)
            => WithinCapacity(slotBuffers')]_vars

\* No machine count was changed and a tick ended with a buffer's input side
\* full to capacity while the source of a link into it still holds some
C34_Witness ==
    /\ TickDone
    /\ ops = 0
    /\ WithinCapacity(slotBuffers)
    /\ \E m \in 1..Len(modules) :
        \E k \in 1..Len(modules[m].links) :
            LET link == modules[m].links[k]
                bufs == slotBuffers[m]
            IN /\ link.toId \in DOMAIN bufs
               /\ link.fromId \in DOMAIN bufs
               /\ Held(bufs[link.toId].input, link.resource) = bufs[link.toId].capacity
               /\ Held(bufs[link.fromId].output, link.resource) > 0

\* A tick would change nothing: in every module that runs, maintenance
\* leaves the buffers as they are, no slot's production changes a buffer or
\* a deposit, and no link moves anything
Quiescent ==
    \A m \in 1..Len(modules) :
        ModuleRuns(modules[m]) =>
            LET bufs == UpdateSlotBuffers(modules[m], slotBuffers[m])
            IN /\ bufs = slotBuffers[m]
               /\ \A i \in 1..Len(modules[m].machineSlots) :
                    LET res == ProduceSlot(modules[m].machineSlots[i], bufs,
                                           deposits, tickRate)
                    IN res.bufs = bufs /\ res.deps = deposits
               /\ \A k \in 1..Len(modules[m].links) :
                    TransferLink(modules[m].links[k], bufs, globalStorage,
                                 tickRate).moved = 0

TransferFrame ==
    LET link == modules[pc.m].links[pc.i]
    IN /\ deposits' = deposits
       /\ modules' = modules
       /\ globalStorage'.capacity = globalStorage.capacity
       /\ \A r \in Resources :
            (r # link.resource
             \/ (link.fromId # GLOBAL_STORAGE /\ link.toId # GLOBAL_STORAGE))
                => Held(globalStorage'.contents, r) = Held(globalStorage.contents, r)
       /\ DOMAIN slotBuffers' = DOMAIN slotBuffers
       /\ \A m \in DOMAIN slotBuffers :
            /\ DOMAIN slotBuffers'[m] = DOMAIN slotBuffers[m]
            /\ \A id \in DOMAIN slotBuffers[m] :
                LET before == slotBuffers[m][id]
                    after == slotBuffers'[m][id]
                IN /\ after.capacity = before.capacity
                   /\ \A r \in Resources :
                        /\ (m # pc.m \/ id # link.fromId \/ r # link.resource)
                             => Held(after.output, r) = Held(before.output, r)
                        /\ (m # pc.m \/ id # link.toId \/ r # link.resource)
                             => Held(after.input, r) = Held(before.input, r)
                        /\ Held(after.input, r) >= Held(before.input, r)
                        /\ Held(after.output, r) <= Held(before.output, r)

\* No input side of a buffer that stays loses anything in the step
InputsKept ==
    \A m \in DOMAIN slotBuffers :
        \A id \in DOMAIN slotBuffers[m] \cap DOMAIN slotBuffers'[m] :
            \A r \in Resources :
                Held(slotBuffers'[m][id].input, r) >= Held(slotBuffers[m][id].input, r)

\* C36. A link transfer changes only the amount of link.resource on the
\* output side of its source slot (or in storage contents) and on the input
\* side of its target slot (or in storage contents): no other resource, no
\* input side of a source, no output side of a target, no buffer capacity,
\* no storage capacity and no deposit; what is on an input side leaves it
\* only by production.
C36_TransferFrame ==
    [][/\ AtTransfer => TransferFrame
       /\ ~AtProduce => InputsKept]_vars

\* A link between two slots has just moved something into an input side that
\* also holds another resource
C36_Witness ==
    /\ hist.passModule # 0
    /\ Len(hist.moved) >= 1
    /\ LET k == Len(hist.moved)
           link == PassLinks[k]
           bufs == slotBuffers[hist.passModule]
       IN /\ hist.moved[k] > 0
          /\ link.fromId \in DOMAIN bufs
          /\ link.toId \in DOMAIN bufs
          /\ \E r \in Resources \ {link.resource} :
                Held(bufs[link.toId].input, r) > 0

\* The slot a slider commit acted on, before and after
CommittedSlotBefore == last.before.modules[last.m].machineSlots[last.i]

CommittedSlot == modules[last.m].machineSlots[last.i]

\* C37. Machine allocation through the slot slider: a slot's machineCount
\* is changed only while its module is disabled, the committed value is
\* min(slider value, available + the slot's current count) >= 0 and the
\* inventory is refreshed; so, the machines in use of every type being
\* within the total when the modules were added, after any sequence of
\* commits the machines allocated (the sum of machineCount over the slots of
\* the type) are within the total and available is not negative.
C37_SliderAllocation ==
    /\ last.op = "sliderCommit" =>
        LET slot == CommittedSlotBefore
            inv == EntryOf(last.before.machineInventory, slot.machineType)
        IN /\ ~last.before.modules[last.m].enabled
           /\ CommittedSlot.machineCount
                = Min2(last.newValue, inv.available + slot.machineCount)
           /\ CommittedSlot.machineCount >= 0
           /\ machineInventory =
                RefreshMachineInventory(last.before.machineInventory, modules)
    /\ \A t \in DOMAIN machineInventory :
        /\ MachinesInUse(modules, t) <= machineInventory[t].total
        /\ machineInventory[t].allocated <= machineInventory[t].total
        /\ machineInventory[t].available >= 0

\* A start() or stop() call that finds the simulator already in the asked
\* state
IdleCall ==
    /\ ops' # ops
    /\ \/ last'.op = "start" /\ simulator.running
       \/ last'.op = "stop" /\ ~simulator.running

\* C38. Simulator start/stop: for any sequence of start() and stop() calls
\* at most one interval timer is registered at any time, running is true
\* exactly when a timer is registered, start() while running and stop()
\* while stopped change nothing, and after stop() returns no timer callback
\* calls world.tick().
C38_SimulatorStartStop ==
    /\ [](/\ Cardinality(simulator.timers) <= 1
          /\ simulator.running <=> simulator.timers # {}
          /\ simulator.running <=> simulator.interval # NoTimer
          /\ last.op = "stop" => ~simulator.running)
    /\ [][/\ IdleCall =>
              /\ simulator' = simulator
              /\ <<modules, slotBuffers, globalStorage, deposits, ticks>>'
                   = <<modules, slotBuffers, globalStorage, deposits, ticks>>
          /\ ticks' # ticks => simulator.running]_vars

\* The simulator was started, ticked the world, was stopped and started
\* again: the second timer is the only one registered
C38_Witness ==
    /\ last.op = "start"
    /\ ticks >= 1
    /\ simulator.running
    /\ simulator.timers = {2}
    /\ simulator.interval = 2

=============================================================================
